---- MODULE Spec2Model ----
(***************************************************************************)
(* The annotation editor of frontend/src/App.js: the object collection     *)
(* (boxes), the undo/redo stacks, selection, placement mode, pointer       *)
(* gestures (move, resize, draw, erase), the clipboard and the             *)
(* asynchronous auto-layout run.                                           *)
(*                                                                         *)
(* React state is modelled as it is after the render that follows each     *)
(* event.  A handler bound in JSX closes over the state of the latest      *)
(* render; the keydown handler is re-created only when selectedIds changes *)
(* (effect deps [selectedIds]), so the `boxes` it sees is keyBoxes, the    *)
(* collection of the render in which selectedIds last changed; the         *)
(* auto-layout continuation sees layoutBoxes, the collection of the render *)
(* in which the button was clicked.                                        *)
(***************************************************************************)
EXTENDS Integers, Sequences, FiniteSets, TLC

VARIABLES
    boxes,            \* useState boxes: the object collection (z-order)
    historyRef,       \* historyRef.current: undo stack of snapshots
    redoRef,          \* redoRef.current: redo stack of snapshots
    selectedId,       \* useState selectedId (0 = null)
    selectedIds,      \* useState selectedIds (array)
    keyBoxes,         \* `boxes` as closed over by the keydown handler
    keyPlaceMode,     \* `placeMode` as closed over by the keydown handler
    placeMode,        \* useState placeMode ("none" = null, else pm.type)
    drawMode,         \* useState drawMode
    eraserMode,       \* useState eraserMode
    clipboard,        \* window.__BOX_CLIPBOARD__
    gest,             \* window pointermove/pointerup listeners of a box gesture
    resizingRef,      \* resizingRef.current
    autoPlacing,      \* useState autoPlacing: a layout request is in flight
    layoutBoxes,      \* `boxes` as closed over by the running runAutoLayout
    nextId,           \* source of fresh ids (Date.now() + Math.random())
    activePointerRef, \* activePointerRef.current (0 = null)
    drawingRef,       \* drawingRef.current
    activeStrokeRef,  \* activeStrokeRef.current (<<>> = null, else <<stroke>>)
    strokeCacheRef,   \* strokeCacheRef.current: page -> completed strokes
    combinePages,     \* useState combinePages (combined multi-page view)
    mem,              \* the same collections as JavaScript references
    ops,              \* number of events delivered so far
    op,               \* observer: the last operation and the state before it
    ev,               \* observer: the last pointer event seen by the page view
    drawQueueRef,     \* drawQueueRef.current: segments waiting for the next flush
    drawFrameRef,     \* drawFrameRef.current (0 = null, else the frame handle)
    canvasRefs,       \* canvasRefs.current: page -> drawing surface (0 = none)
    frames,           \* handles of the animation frame callbacks the browser holds
    mounted,          \* the editor component is mounted
    painted,          \* observer: what the flushes have drawn, in order
    unflushedSeconds, \* useState unflushedSeconds
    unflushedRef,     \* unflushedRef.current
    lastFlush,        \* `lastFlush` of the timer effect's closure
    timerOn,          \* the tick and flush intervals of the timer effect are set
    requests,         \* time/add requests in flight
    timeLog,          \* observer: seconds counted, received by the backend, lost
    buildStatuses,    \* useState buildStatuses: key -> state
    buildQueue,       \* useState buildQueue
    runningKeys,      \* useState runningKeys
    tasks             \* build tasks started by the scheduler effect, not yet finished

vars == <<boxes, historyRef, redoRef, selectedId, selectedIds, keyBoxes, keyPlaceMode,
          placeMode, drawMode, eraserMode, clipboard, gest, resizingRef,
          autoPlacing, layoutBoxes, nextId, activePointerRef, drawingRef,
          activeStrokeRef, strokeCacheRef, combinePages, mem, ops, op, ev,
          drawQueueRef, drawFrameRef, canvasRefs, frames, mounted, painted,
          unflushedSeconds, unflushedRef, lastFlush, timerOn, requests, timeLog,
          buildStatuses, buildQueue, runningKeys, tasks>>

histVars == <<boxes, historyRef, redoRef>>
selVars  == <<selectedId, selectedIds>>
drawVars == <<activePointerRef, drawingRef, activeStrokeRef, strokeCacheRef>>
toolVars == <<drawMode, eraserMode>>
layVars  == <<autoPlacing, layoutBoxes>>

----------------------------------------------------------------------------
(* Bounds of the model                                                     *)

MaxOps == 8          \* events explored per behaviour of Spec
MaxGestureOps == 8   \* events explored per behaviour of SpecGesture
MaxLayoutOps == 8    \* events explored per behaviour of SpecLayout
MaxDrawOps == 7      \* events explored per behaviour of SpecDraw
MaxPointerOps == 6   \* events explored per behaviour of SpecPointers
MaxMoveOps == 10      \* events explored per behaviour of SpecMove
MaxDropOps == 6       \* events explored per behaviour of SpecDrop
MaxStaleOps == 6      \* events explored per behaviour of SpecStale
MaxStrokeOps == 8     \* events explored per behaviour of SpecStroke
MaxEscapeOps == 6     \* events explored per behaviour of SpecEscape
MaxHandleOps == 7     \* events explored per behaviour of SpecHandles
MaxCornerOps == 6     \* events explored per behaviour of SpecCorner
MaxGroupOps == 7      \* events explored per behaviour of SpecGroup
MaxPasteOps == 8     \* events explored per behaviour of SpecPaste
MaxRenderOps == 4    \* events explored per behaviour of SpecRender
MaxTimerOps == 6     \* timer events and clicks explored per behaviour of SpecTimer
MaxBuildOps == 5     \* build clicks explored per behaviour of SpecBuild
MaxCoordOps == 5     \* events explored per behaviour of SpecCoords

----------------------------------------------------------------------------
(* Generic helpers                                                         *)

Max(a, b) == IF a >= b THEN a ELSE b
Min(a, b) == IF a <= b THEN a ELSE b
Range(s) == {s[i] : i \in DOMAIN s}
Includes(s, e) == \E i \in DOMAIN s : s[i] = e

RECURSIVE FilterSeq(_, _)
\* Array.prototype.filter with membership in a set of kept indices
FilterSeq(s, keep) ==
    IF s = <<>> THEN <<>>
    ELSE LET n == Len(s)
             r == FilterSeq(SubSeq(s, 1, n - 1), keep)
         IN  IF n \in keep THEN Append(r, s[n]) ELSE r

TypeOf(b) == IF "type" \in DOMAIN b THEN b.type ELSE "undefined"
Ids(bs) == {bs[i].id : i \in DOMAIN bs}
FindIndex(bs, id) ==
    IF \E i \in DOMAIN bs : bs[i].id = id
    THEN CHOOSE i \in DOMAIN bs : bs[i].id = id /\ \A j \in 1..(i-1) : bs[j].id # id
    ELSE 0

----------------------------------------------------------------------------
(* Page surfaces: img.page-image elements and their client rectangles.     *)
(* Two pages; the single-page view renders only page `current`, the        *)
(* combined view stacks all pages vertically in the container.             *)

\* exams of the curation tab (`${uni}:::${et}`)
BuildKeys == {"a", "b", "c"}
PageCount == 2
current == 0
PageSize == [w |-> 300, h |-> 100]

RenderedPages == IF combinePages THEN 0..(PageCount - 1) ELSE {current}
ImgRect(i) ==
    [left |-> 0, top |-> (IF combinePages THEN i * PageSize.h ELSE 0),
     width |-> PageSize.w, height |-> PageSize.h]
Contains(r, pt) ==
    /\ pt.x >= r.left /\ pt.x <= r.left + r.width
    /\ pt.y >= r.top  /\ pt.y <= r.top + r.height
\* the first rendered page whose rectangle contains the point, or -1
LocatePage(pt) ==
    IF \E i \in RenderedPages : Contains(ImgRect(i), pt)
    THEN CHOOSE i \in RenderedPages :
            Contains(ImgRect(i), pt) /\ \A j \in RenderedPages : j < i => ~Contains(ImgRect(j), pt)
    ELSE -1
Clamp(v, lo, hi) == Max(lo, Min(v, hi))

\* pointer positions offered to the handlers (client coordinates)
ClientPts == { [x |-> 10, y |-> 10], [x |-> 40, y |-> 10], [x |-> 10, y |-> 130] }

----------------------------------------------------------------------------
(* History manager                                                         *)

\* JSON.parse(JSON.stringify(v)): a deep copy; the collection holds only
\* numbers, strings, booleans, arrays and plain objects, which survive it
Snapshot(v) == v

\* pushHistory as called by a handler whose closure sees the collection b
PushedHistory(h, b) == Append(h, Snapshot(b))

NoGesture == [kind |-> "none"]
Observe(kind) == [kind |-> kind, pre |-> boxes, hlen |-> Len(historyRef)]

Init ==
    /\ boxes = <<>>
    /\ historyRef = <<>>
    /\ redoRef = <<>>
    /\ selectedId = 0
    /\ selectedIds = <<>>
    /\ keyBoxes = <<>>
    /\ keyPlaceMode = "none"
    /\ placeMode = "none"
    /\ drawMode = FALSE
    /\ eraserMode = FALSE
    /\ clipboard = <<>>
    /\ gest = NoGesture
    /\ resizingRef = FALSE
    /\ autoPlacing = FALSE
    /\ layoutBoxes = <<>>
    /\ nextId = 1
    /\ activePointerRef = 0
    /\ drawingRef = [active |-> FALSE]
    /\ activeStrokeRef = <<>>
    /\ strokeCacheRef = [p \in 0..(PageCount - 1) |-> <<>>]
    /\ combinePages = TRUE
    /\ mem = [boxes |-> <<>>, history |-> <<>>, redo |-> <<>>, clip |-> <<>>,
              key |-> <<>>, active |-> <<>>, arrays |-> <<>>, nextObj |-> 1]
    /\ ops = 0
    /\ op = [kind |-> "init", pre |-> <<>>, hlen |-> 0]
    /\ ev = [type |-> "none"]
    /\ drawQueueRef = <<>>
    /\ drawFrameRef = 0
    /\ canvasRefs = [p \in 0..(PageCount - 1) |-> p + 1]
    /\ frames = {}
    /\ mounted = TRUE
    /\ painted = <<>>
    /\ unflushedSeconds = 0
    /\ unflushedRef = 0
    /\ lastFlush = 0
    /\ timerOn = TRUE
    /\ requests = {}
    /\ timeLog = [counted |-> 0, received |-> 0, lost |-> 0]
    /\ buildStatuses = [k \in BuildKeys |-> "idle"]
    /\ buildQueue = <<>>
    /\ runningKeys = <<>>
    /\ tasks = <<>>


----------------------------------------------------------------------------
(* Stroke cache: the effect on [boxes] rebuilds the per-page cache of draw *)
(* objects after every render in which the collection changed.             *)

\* variant of the rebuild that files every stroke under every page
SyncCacheUngrouped(bs) ==
    [p \in 0..(PageCount - 1) |-> FilterSeq(bs, {i \in DOMAIN bs : TypeOf(bs[i]) = "draw"})]

SyncCache(bs) ==
    [p \in 0..(PageCount - 1) |->
        FilterSeq(bs, {i \in DOMAIN bs : TypeOf(bs[i]) = "draw" /\ bs[i].page = p})]

\* the keydown effect re-subscribes when selectedIds got a new array
Rendered(b) == b.page \in RenderedPages /\ TypeOf(b) # "draw"

----------------------------------------------------------------------------
(* Placement: toolbar buttons enter placement mode, the next click on the  *)
(* page view places the object(s).                                         *)

PlaceKinds == {"line", "arrow", "score", "text", "linex"}

SetPlaceMode(kind) ==
    /\ gest = NoGesture
    /\ kind \in PlaceKinds
    /\ placeMode' = kind
    /\ op' = Observe("setPlaceMode")
    /\ UNCHANGED <<histVars, selVars, keyBoxes, toolVars, clipboard, gest, resizingRef,
                   layVars, nextId, drawVars, combinePages, ev>>

\* addBox(text, opts) followed by the caller's page/x/y override
NewTextBox(id, page, x, y, w, h, fontSize, edit, fixedHeight, text) ==
    [id |-> id, page |-> page, x |-> x, y |-> y, w |-> w, h |-> h,
     fontSize |-> fontSize, fontWeight |-> "bold", text |-> text,
     isEditing |-> edit, fixedHeight |-> fixedHeight]

\* addScoreMarker(points, opts) followed by the caller's page/x/y override
NewScoreMarker(id, page, x, y, points) ==
    [id |-> id, page |-> page, type |-> "score", x |-> x, y |-> y, w |-> 60, h |-> 30,
     fontSize |-> 18, fontWeight |-> "bold", points |-> points]

NewLine(id, page, x, y) ==
    [id |-> id, type |-> "line", page |-> page, x |-> Max(0, x - 100), y |-> y,
     w |-> 200, h |-> 3]

NewArrow(id, page, x, y, r) ==
    [id |-> id, type |-> "arrow", page |-> page, x |-> x, y |-> y,
     ex |-> Min(r.width, x + 140), ey |-> y, strokeWidth |-> 3]

\* the line and the glyph of a "line + x" placement, which share a group
\* token; Math.round(40 * 0.93) is 37
LineX(id, page, x, y) ==
    LET x0 == Max(0, x - 100)
    IN  << [id |-> id, type |-> "line", page |-> page, x |-> x0, y |-> y,
            w |-> 200, h |-> 3, group |-> id],
           [id |-> id + 1, type |-> "text", page |-> page, x |-> x0 + 200 - 18, y |-> y - 37,
            w |-> 40, h |-> 40, fontSize |-> 40, fontWeight |-> "bold", text |-> "x",
            group |-> id] >>

\* number of pushHistory calls made by handlePageClick for a placement kind:
\* its own, plus the one inside addBox / addScoreMarker
PlacePushes(kind) == IF kind \in {"text", "score"} THEN 2 ELSE 1

handlePageClick(pt) ==
    /\ gest = NoGesture
    /\ placeMode # "none" /\ ~drawMode /\ ~eraserMode
    /\ LET tpi == LocatePage(pt)
           h1  == PushedHistory(historyRef, boxes)
       IN  IF tpi = -1
           THEN /\ historyRef' = h1
                /\ redoRef' = <<>>
                /\ placeMode' = "none"
                /\ op' = Observe("placeMiss")
                /\ UNCHANGED <<boxes, selVars, keyBoxes, nextId, strokeCacheRef>>
           ELSE /\ LET r  == ImgRect(tpi)
                       x  == Clamp(pt.x - r.left, 0, r.width)
                       y  == Clamp(pt.y - r.top, 0, r.height)
                       id == nextId
                       nb == CASE placeMode = "text"  -> <<NewTextBox(id, tpi, x, y, 240, 100, 14, TRUE, FALSE, "")>>
                               [] placeMode = "score" -> <<NewScoreMarker(id, tpi, x, y, 1)>>
                               [] placeMode = "line"  -> <<NewLine(id, tpi, x, y)>>
                               [] placeMode = "arrow" -> <<NewArrow(id, tpi, x, y, r)>>
                               [] placeMode = "linex" -> LineX(id, tpi, x, y)
                   IN  /\ historyRef' = (IF PlacePushes(placeMode) = 2
                                         THEN PushedHistory(h1, boxes) ELSE h1)
                       /\ redoRef' = <<>>
                       /\ boxes' = boxes \o nb
                       /\ selectedId' = nb[Len(nb)].id
                       /\ selectedIds' = [i \in 1..Len(nb) |-> nb[i].id]
                       /\ nextId' = nextId + Len(nb)
                       /\ placeMode' = "none"
                       /\ keyBoxes' = boxes'
                       /\ strokeCacheRef' = SyncCache(boxes')
                       /\ op' = Observe("place")
    /\ UNCHANGED <<toolVars, clipboard, gest, resizingRef, layVars,
                   activePointerRef, drawingRef, activeStrokeRef, combinePages, ev>>

----------------------------------------------------------------------------
(* Selection by click, deletion                                            *)

\* onClick of an object: selectOnly(id), or toggleSelect(id) with a modifier
ClickBox(id, multi) ==
    /\ gest = NoGesture
    /\ \E i \in DOMAIN boxes : boxes[i].id = id /\ Rendered(boxes[i])
    /\ selectedId' = id
    /\ selectedIds' = (IF multi
                       THEN IF Includes(selectedIds, id)
                            THEN FilterSeq(selectedIds, {i \in DOMAIN selectedIds : selectedIds[i] # id})
                            ELSE Append(selectedIds, id)
                       ELSE <<id>>)
    /\ keyBoxes' = boxes
    /\ op' = Observe("select")
    /\ UNCHANGED <<histVars, placeMode, toolVars, clipboard, gest, resizingRef, layVars,
                   nextId, drawVars, combinePages, ev>>

\* the per-object delete button is shown on a singleton-selected box /
\* line / target, and on a score marker that is the primary selection;
\* arrows have none
DeleteButtonShown(b) ==
    /\ Rendered(b)
    /\ CASE TypeOf(b) = "score" -> selectedId = b.id
         [] TypeOf(b) = "arrow" -> FALSE
         [] OTHER -> selectedIds = <<b.id>>

removeBox(id) ==
    /\ gest = NoGesture
    /\ \E i \in DOMAIN boxes : boxes[i].id = id /\ DeleteButtonShown(boxes[i])
    /\ boxes' = FilterSeq(boxes, {i \in DOMAIN boxes : boxes[i].id # id})
    \* the click bubbles no further (stopPropagation): selection is kept
    /\ strokeCacheRef' = SyncCache(boxes')
    /\ op' = Observe("delete")
    /\ UNCHANGED <<historyRef, redoRef, selVars, keyBoxes, placeMode, toolVars, clipboard,
                   gest, resizingRef, layVars, nextId, activePointerRef, drawingRef,
                   activeStrokeRef, combinePages, ev>>

\* removeSelected as seen from a closure whose `boxes` is b
RemoveSelectedFrom(b) ==
    /\ historyRef' = PushedHistory(historyRef, b)
    /\ redoRef' = <<>>
    /\ boxes' = FilterSeq(boxes, {i \in DOMAIN boxes : ~Includes(selectedIds, boxes[i].id)})
    /\ strokeCacheRef' = SyncCache(boxes')
    /\ op' = Observe("delete")
    /\ UNCHANGED <<selVars, keyBoxes, placeMode, toolVars, clipboard, gest, resizingRef,
                   layVars, nextId, activePointerRef, drawingRef, activeStrokeRef,
                   combinePages, ev>>

\* toolbar button "delete selection"
removeSelected ==
    /\ gest = NoGesture
    /\ RemoveSelectedFrom(boxes)

----------------------------------------------------------------------------
(* Undo / redo                                                             *)

Last(s) == s[Len(s)]
Front(s) == SubSeq(s, 1, Len(s) - 1)

\* undo as run by a handler whose closure sees the collection b
UndoFrom(b) ==
    /\ historyRef # <<>>
    /\ historyRef' = Front(historyRef)
    /\ redoRef' = Append(redoRef, Snapshot(b))
    /\ boxes' = Last(historyRef)
    /\ strokeCacheRef' = SyncCache(boxes')
    /\ op' = Observe("undo")
    /\ UNCHANGED <<selVars, keyBoxes, placeMode, toolVars, clipboard, gest, resizingRef,
                   layVars, nextId, activePointerRef, drawingRef, activeStrokeRef,
                   combinePages, ev>>

\* redo as run by a handler whose closure sees the collection b
RedoFrom(b) ==
    /\ redoRef # <<>>
    /\ redoRef' = Front(redoRef)
    /\ historyRef' = Append(historyRef, Snapshot(b))
    /\ boxes' = Last(redoRef)
    /\ strokeCacheRef' = SyncCache(boxes')
    /\ op' = Observe("redo")
    /\ UNCHANGED <<selVars, keyBoxes, placeMode, toolVars, clipboard, gest, resizingRef,
                   layVars, nextId, activePointerRef, drawingRef, activeStrokeRef,
                   combinePages, ev>>

ToolbarUndo == gest = NoGesture /\ UndoFrom(boxes)
ToolbarRedo == gest = NoGesture /\ RedoFrom(boxes)

----------------------------------------------------------------------------
(* Keyboard shortcuts (onKey).  The handler returns early while no object  *)
(* is selected; it sees keyBoxes where it reads `boxes`.                   *)

KeyEnabled == gest = NoGesture /\ Len(selectedIds) > 0

KeyUndo == KeyEnabled /\ UndoFrom(keyBoxes)
KeyRedo == KeyEnabled /\ RedoFrom(keyBoxes)
KeyDelete == KeyEnabled /\ RemoveSelectedFrom(keyBoxes)

\* Escape: `placeMode` is the one of the render in which the effect on
\* [selectedIds] last subscribed the handler.  When that one is null the key
\* falls through to the selection guard and the nudge updater, which maps
\* every object to itself.
KeyEscape ==
    /\ gest = NoGesture
    /\ placeMode' = (IF keyPlaceMode # "none" THEN "none" ELSE placeMode)
    /\ op' = Observe("escape")
    /\ UNCHANGED <<histVars, selVars, keyBoxes, toolVars, clipboard, gest, resizingRef,
                   layVars, nextId, drawVars, combinePages, ev>>

NudgeKeys == {"ArrowLeft", "ArrowRight", "ArrowUp", "ArrowDown"}

\* Number arithmetic on a coordinate the object may lack: undefined - step,
\* undefined + step and Math.max(0, NaN) are NaN
NaN == -1073741824
Field(b, f) == IF f \in DOMAIN b THEN b[f] ELSE NaN
Plus(v, d) == IF v = NaN THEN NaN ELSE v + d
MaxZero(v) == IF v = NaN THEN NaN ELSE Max(0, v)
\* {...b, f: v}
With(b, f, v) == [g \in (DOMAIN b) \cup {f} |-> IF g = f THEN v ELSE b[g]]

Nudged(b, key, step) ==
    CASE key = "ArrowUp"    -> With(b, "y", MaxZero(Plus(Field(b, "y"), 0 - step)))
      [] key = "ArrowDown"  -> With(b, "y", Plus(Field(b, "y"), step))
      [] key = "ArrowLeft"  -> With(b, "x", MaxZero(Plus(Field(b, "x"), 0 - step)))
      [] key = "ArrowRight" -> With(b, "x", Plus(Field(b, "x"), step))

KeyNudge(key, shift) ==
    /\ KeyEnabled
    /\ key \in NudgeKeys
    /\ LET step == IF shift THEN 10 ELSE 1
       IN  boxes' = [i \in DOMAIN boxes |->
                        IF Includes(selectedIds, boxes[i].id)
                        THEN Nudged(boxes[i], key, step) ELSE boxes[i]]
    /\ strokeCacheRef' = SyncCache(boxes')
    /\ op' = Observe("nudge")
    /\ UNCHANGED <<historyRef, redoRef, selVars, keyBoxes, placeMode, toolVars, clipboard,
                   gest, resizingRef, layVars, nextId, activePointerRef, drawingRef,
                   activeStrokeRef, combinePages, ev>>

KeyCopy ==
    /\ KeyEnabled
    /\ clipboard' = Snapshot(FilterSeq(keyBoxes,
                        {i \in DOMAIN keyBoxes : Includes(selectedIds, keyBoxes[i].id)}))
    /\ op' = Observe("copy")
    /\ UNCHANGED <<histVars, selVars, keyBoxes, placeMode, toolVars, gest, resizingRef,
                   layVars, nextId, drawVars, combinePages, ev>>

PasteOffset == 20

\* variant of the clone that moves the points of a stroke instead of its offset
PastedCloneMovingPoints(b, id) ==
    LET nb == [b EXCEPT !.id = id]
    IN  CASE TypeOf(nb) = "draw" ->
                 [nb EXCEPT !.points = [k \in DOMAIN @ |-> [x |-> @[k].x + PasteOffset,
                                                            y |-> @[k].y + PasteOffset]]]
          [] OTHER -> [nb EXCEPT !.x = @ + PasteOffset, !.y = @ + PasteOffset]

PastedClone(b, id) ==
    LET nb == [b EXCEPT !.id = id]
    IN  CASE TypeOf(nb) = "draw"  -> [nb EXCEPT !.offsetX = @ + PasteOffset, !.offsetY = @ + PasteOffset]
          [] TypeOf(nb) = "arrow" -> [nb EXCEPT !.x = @ + PasteOffset, !.y = @ + PasteOffset,
                                                 !.ex = @ + PasteOffset, !.ey = @ + PasteOffset]
          [] OTHER -> [nb EXCEPT !.x = @ + PasteOffset, !.y = @ + PasteOffset]

KeyPaste ==
    /\ KeyEnabled
    /\ clipboard # <<>>
    /\ LET cloned == [i \in DOMAIN clipboard |-> PastedClone(clipboard[i], nextId + i - 1)]
       IN  /\ boxes' = boxes \o cloned
           /\ selectedId' = cloned[Len(cloned)].id
           /\ selectedIds' = [i \in DOMAIN cloned |-> cloned[i].id]
    /\ nextId' = nextId + Len(clipboard)
    /\ keyBoxes' = boxes'
    /\ strokeCacheRef' = SyncCache(boxes')
    /\ op' = Observe("paste")
    /\ UNCHANGED <<historyRef, redoRef, placeMode, toolVars, clipboard, gest, resizingRef,
                   layVars, activePointerRef, drawingRef, activeStrokeRef, combinePages, ev>>

----------------------------------------------------------------------------
(* Move gesture: onPointerDownBox registers window listeners `move` and    *)
(* `up` that close over the selection, the start-of-gesture coordinates    *)
(* and the start pointer position.                                         *)

PointerIds == {1, 2}

StartOf(b) ==
    CASE TypeOf(b) = "draw"  -> [x |-> b.offsetX, y |-> b.offsetY]
      [] TypeOf(b) = "arrow" -> [x |-> b.x, y |-> b.y, ex |-> b.ex, ey |-> b.ey]
      [] OTHER               -> [x |-> b.x, y |-> b.y]

\* the selection a pointer-down on object id produces
PointerDownSel(id, multi) ==
    LET target  == boxes[FindIndex(boxes, id)]
        baseSel == IF Includes(selectedIds, id) THEN selectedIds
                   ELSE IF multi THEN Append(selectedIds, id) ELSE <<id>>
        gidx    == IF ~multi /\ "group" \in DOMAIN target
                   THEN {i \in DOMAIN boxes : "group" \in DOMAIN boxes[i]
                                              /\ boxes[i].group = target.group}
                   ELSE {}
    IN  IF Cardinality(gidx) >= 2
        THEN [sel |-> [i \in 1..Len(FilterSeq(boxes, gidx)) |-> FilterSeq(boxes, gidx)[i].id],
              fresh |-> TRUE]
        ELSE [sel |-> baseSel, fresh |-> ~Includes(selectedIds, id)]

onPointerDownBox(id, pt, multi, pid) ==
    /\ gest = NoGesture
    /\ \E i \in DOMAIN boxes : boxes[i].id = id /\ Rendered(boxes[i])
    /\ historyRef' = PushedHistory(historyRef, boxes)
    /\ redoRef' = <<>>
    /\ LET ps == PointerDownSel(id, multi)
       IN  /\ selectedId' = id
           /\ selectedIds' = ps.sel
           /\ keyBoxes' = (IF ps.fresh THEN boxes ELSE keyBoxes)
           /\ gest' = (IF resizingRef THEN NoGesture
                       ELSE [kind |-> "move", sel |-> Range(ps.sel),
                             starts |-> [bid \in (Range(ps.sel) \cap Ids(boxes)) |->
                                            StartOf(boxes[FindIndex(boxes, bid)])],
                             startX |-> pt.x, startY |-> pt.y, pointerId |-> pid,
                             cur |-> pt, combined |-> combinePages])
    /\ op' = Observe("move")
    /\ UNCHANGED <<boxes, placeMode, toolVars, clipboard, resizingRef, layVars, nextId,
                   drawVars, combinePages, ev>>

\* variant of the updater that adds the delta to where the object is now
MovedBoxFromCurrent(b, st, dx, dy) ==
    CASE TypeOf(b) = "draw"  -> b
      [] TypeOf(b) = "arrow" -> [b EXCEPT !.x = Max(0, b.x + dx), !.y = Max(0, b.y + dy),
                                          !.ex = Max(0, b.ex + dx), !.ey = Max(0, b.ey + dy)]
      [] OTHER               -> [b EXCEPT !.x = Max(0, b.x + dx), !.y = Max(0, b.y + dy)]

\* the body of `move`'s setBoxes updater for one object
MovedBox(b, st, dx, dy) ==
    CASE TypeOf(b) = "draw"  -> b
      [] TypeOf(b) = "arrow" -> [b EXCEPT !.x = Max(0, st.x + dx), !.y = Max(0, st.y + dy),
                                          !.ex = Max(0, st.ex + dx), !.ey = Max(0, st.ey + dy)]
      [] OTHER               -> [b EXCEPT !.x = Max(0, st.x + dx), !.y = Max(0, st.y + dy)]

MoveApplied(bs, g, pt) ==
    [i \in DOMAIN bs |->
        IF bs[i].id \in g.sel /\ bs[i].id \in DOMAIN g.starts
        THEN MovedBox(bs[i], g.starts[bs[i].id], pt.x - g.startX, pt.y - g.startY)
        ELSE bs[i]]

\* the page whose image spans the release point vertically, or -1
DropPage(pt) ==
    IF \E i \in RenderedPages : pt.y >= ImgRect(i).top /\ pt.y <= ImgRect(i).top + ImgRect(i).height
    THEN CHOOSE i \in RenderedPages :
            /\ pt.y >= ImgRect(i).top /\ pt.y <= ImgRect(i).top + ImgRect(i).height
            /\ \A j \in RenderedPages : j < i =>
                   ~(pt.y >= ImgRect(j).top /\ pt.y <= ImgRect(j).top + ImgRect(j).height)
    ELSE -1

\* variant of the drop that also keeps the object inside the right page edge
DroppedBoxKeptOnPage(b, st, dx, dy, targetPage) ==
    LET maxX == ImgRect(targetPage).width - (IF "w" \in DOMAIN b THEN b.w ELSE 0)
    IN  IF TypeOf(b) = "draw" THEN b
        ELSE IF b.page = targetPage
        THEN [b EXCEPT !.x = Clamp(st.x + dx, 0, maxX), !.y = Max(0, st.y + dy)]
        ELSE IF b.page \notin RenderedPages THEN b
        ELSE [b EXCEPT !.page = targetPage,
                       !.x = Clamp(st.x + dx, 0, maxX),
                       !.y = Max(0, ImgRect(b.page).top + st.y + dy - ImgRect(targetPage).top)]

\* the body of `up`'s setBoxes updater for one object (combined view)
DroppedBox(b, st, dx, dy, targetPage) ==
    IF TypeOf(b) = "draw" THEN b
    ELSE IF b.page = targetPage
    THEN [b EXCEPT !.x = Max(0, st.x + dx), !.y = Max(0, st.y + dy)]
    ELSE IF b.page \notin RenderedPages THEN b
    ELSE [b EXCEPT !.page = targetPage,
                   !.x = Max(0, st.x + dx),
                   !.y = Max(0, ImgRect(b.page).top + st.y + dy - ImgRect(targetPage).top)]

DropApplied(bs, g, pt) ==
    LET targetPage == DropPage(pt)
    IN  IF ~g.combined \/ targetPage = -1 THEN bs
        ELSE [i \in DOMAIN bs |->
                IF bs[i].id \in g.sel /\ bs[i].id \in DOMAIN g.starts
                THEN DroppedBox(bs[i], g.starts[bs[i].id], pt.x - g.startX, pt.y - g.startY,
                                targetPage)
                ELSE bs[i]]

----------------------------------------------------------------------------
(* JavaScript numbers: binary floating point, every operation rounded to  *)
(* the nearest value, ties to even.  A positive number is the sequence m  *)
(* of its significand bits, most significant first, and the exponent e of *)
(* its leading bit.                                                       *)

Precision == 53      \* significand bits of a JavaScript number

RECURSIVE BitsOf(_)
\* binary digits of a natural number, most significant first
BitsOf(n) == IF n = 0 THEN <<>> ELSE Append(BitsOf(n \div 2), n % 2)

\* the positive integer n as a number (exact below 2^Precision)
ToDouble(n) ==
    LET b == BitsOf(n)
    IN  [m |-> b \o [i \in 1..(Precision - Len(b)) |-> 0], e |-> Len(b) - 1]

\* the binary digits b plus one: the last 0 becomes 1 and the 1s after it 0
Incremented(b) ==
    IF \A i \in 1..Len(b) : b[i] = 1 THEN <<1>> \o [i \in 1..Len(b) |-> 0]
    ELSE LET k == CHOOSE n \in 1..Len(b) : b[n] = 0 /\ \A j \in (n + 1)..Len(b) : b[j] = 1
         IN  [i \in 1..Len(b) |-> IF i < k THEN b[i] ELSE IF i = k THEN 1 ELSE 0]

\* the significand bits, rounded up when up holds
Rounded(bits, e, up) ==
    IF ~up THEN [m |-> bits, e |-> e]
    ELSE LET inc == Incremented(bits)
         IN  IF Len(inc) > Precision THEN [m |-> SubSeq(inc, 1, Precision), e |-> e + 1]
             ELSE [m |-> inc, e |-> e]

\* Long operations work on 13 binary digits at a time.
\* the n binary digits of v < 2^n, most significant first
DigitsOf(v, n) == [i \in 1..n |-> (v \div 2^(n - i)) % 2]

RECURSIVE ValueOf(_)
\* the natural number with the binary digits bits
ValueOf(bits) ==
    IF bits = <<>> THEN 0
    ELSE 2 * ValueOf(SubSeq(bits, 1, Len(bits) - 1)) + bits[Len(bits)]

RECURSIVE QuotientBits(_, _, _)
\* the next n binary digits of rem / D, for rem < D
QuotientBits(rem, D, n) ==
    IF n = 0 THEN <<>>
    ELSE LET c == Min(n, 13)
             t == rem * 2^c
         IN  DigitsOf(t \div D, c) \o QuotientBits(t % D, D, n - c)

RECURSIVE Remainder(_, _, _)
\* what is left of rem / D after n binary digits
Remainder(rem, D, n) ==
    IF n = 0 THEN rem
    ELSE LET c == Min(n, 13)
         IN  Remainder((rem * 2^c) % D, D, n - c)

RECURSIVE ShiftUp(_, _)
\* the least k with a * 2^k >= b
ShiftUp(a, b) == IF a >= b THEN 0 ELSE 1 + ShiftUp(2 * a, b)

RECURSIVE ShiftDown(_, _)
\* the greatest j with b * 2^j <= a (0 when a < 2 * b)
ShiftDown(a, b) == IF 2 * b > a THEN 0 ELSE 1 + ShiftDown(a, 2 * b)

RECURSIVE Pow2(_)
Pow2(n) == IF n = 0 THEN 1 ELSE 2 * Pow2(n - 1)

\* a / b for positive integers a and b
DDiv(a, b) ==
    LET k    == ShiftUp(a, b)
        j    == ShiftDown(a, b)
        N    == a * Pow2(k)
        D    == b * Pow2(j)
        bits == <<1>> \o QuotientBits(N - D, D, Precision - 1)
        rem  == Remainder(N - D, D, Precision - 1)
        up   == 2 * rem > D \/ (2 * rem = D /\ bits[Precision] = 1)
    IN  Rounded(bits, j - k, up)

Reverse(s) == [i \in 1..Len(s) |-> s[Len(s) + 1 - i]]

RECURSIVE TimesLsb(_, _, _)
\* digits of bits * c + carry, least significant first
TimesLsb(bits, c, carry) ==
    IF bits = <<>> THEN Reverse(BitsOf(carry))
    ELSE LET n == Min(Len(bits), 13)
             t == ValueOf(Reverse(SubSeq(bits, 1, n))) * c + carry
         IN  Reverse(DigitsOf(t % 2^n, n)) \o TimesLsb(SubSeq(bits, n + 1, Len(bits)), c, t \div 2^n)

\* c * d for a positive integer c and a number d
DMulInt(c, d) ==
    LET prod   == Reverse(TimesLsb(Reverse(d.m), c, 0))
        L      == Len(prod)
        kept   == SubSeq(prod, 1, Precision)
        rest   == SubSeq(prod, Precision + 1, L)
        half   == rest # <<>> /\ rest[1] = 1
        sticky == \E i \in 2..Len(rest) : rest[i] = 1
        up     == half /\ (sticky \/ kept[Precision] = 1)
    IN  Rounded(kept, d.e + (L - Precision), up)

\* a < b for two positive numbers
DLess(a, b) ==
    \/ a.e < b.e
    \/ /\ a.e = b.e
       /\ \E i \in 1..Precision : a.m[i] < b.m[i] /\ \A j \in 1..(i - 1) : a.m[j] = b.m[j]

\* Math.max(a, b)
DMax(a, b) == IF DLess(a, b) THEN b ELSE a

\* Math.round(d): the nearest integer, halves upwards
DRound(d) ==
    IF d.e < -1 THEN 0
    ELSE IF d.e = -1 THEN 1
    ELSE ValueOf(SubSeq(d.m, 1, d.e + 1)) + d.m[d.e + 2]

\* Sums and differences are formed exactly on multiples of 2^-(Precision-1),
\* written in binary without leading zeros, and then rounded.
Zeros(n) == [i \in 1..n |-> 0]

\* b without its leading zeros
Stripped(b) ==
    IF \A i \in 1..Len(b) : b[i] = 0 THEN <<>>
    ELSE LET k == CHOOSE n \in 1..Len(b) : b[n] = 1 /\ \A j \in 1..(n - 1) : b[j] = 0
         IN  SubSeq(b, k, Len(b))

Padded(b, n) == Zeros(n - Len(b)) \o b

FixOfInt(n) == IF n = 0 THEN <<>> ELSE BitsOf(n) \o Zeros(Precision - 1)

\* for a number that is at least 1
FixOfDouble(d) == d.m \o Zeros(d.e)

MagLess(a, b) ==
    LET n  == Max(Len(a), Len(b))
        pa == Padded(a, n)
        pb == Padded(b, n)
    IN  \E i \in 1..n : pa[i] < pb[i] /\ \A j \in 1..(i - 1) : pa[j] = pb[j]

RECURSIVE AddLsb(_, _, _)
\* digits of a + b + carry, least significant first
AddLsb(a, b, carry) ==
    IF a = <<>> THEN (IF carry = 1 THEN <<1>> ELSE <<>>)
    ELSE LET n == Min(Len(a), 13)
             t == ValueOf(Reverse(SubSeq(a, 1, n))) + ValueOf(Reverse(SubSeq(b, 1, n))) + carry
         IN  Reverse(DigitsOf(t % 2^n, n))
                 \o AddLsb(SubSeq(a, n + 1, Len(a)), SubSeq(b, n + 1, Len(b)), t \div 2^n)

MagAdd(a, b) ==
    LET n == Max(Len(a), Len(b))
    IN  Stripped(Reverse(AddLsb(Reverse(Padded(a, n)), Reverse(Padded(b, n)), 0)))

RECURSIVE SubLsb(_, _, _)
\* digits of a - b - borrow for a >= b, least significant first
SubLsb(a, b, borrow) ==
    IF a = <<>> THEN <<>>
    ELSE LET n == Min(Len(a), 13)
             t == ValueOf(Reverse(SubSeq(a, 1, n))) - ValueOf(Reverse(SubSeq(b, 1, n))) - borrow
         IN  Reverse(DigitsOf(IF t < 0 THEN t + 2^n ELSE t, n))
                 \o SubLsb(SubSeq(a, n + 1, Len(a)), SubSeq(b, n + 1, Len(b)),
                            IF t < 0 THEN 1 ELSE 0)

MagSub(a, b) ==
    LET n == Max(Len(a), Len(b))
    IN  Stripped(Reverse(SubLsb(Reverse(Padded(a, n)), Reverse(Padded(b, n)), 0)))

\* the nearest magnitude with Precision significant digits, ties to even
MagRounded(b) ==
    IF Len(b) <= Precision THEN b
    ELSE LET kept   == SubSeq(b, 1, Precision)
             rest   == SubSeq(b, Precision + 1, Len(b))
             sticky == \E i \in 2..Len(rest) : rest[i] = 1
             up     == rest[1] = 1 /\ (sticky \/ kept[Precision] = 1)
             r      == Rounded(kept, 0, up)
         IN  r.m \o Zeros(Len(rest) + r.e)

Signed(neg, mag) == [neg |-> neg /\ mag # <<>>, mag |-> mag]

\* a + b, rounded
SAdd(a, b) ==
    LET sum == IF a.neg = b.neg THEN Signed(a.neg, MagAdd(a.mag, b.mag))
               ELSE IF MagLess(a.mag, b.mag) THEN Signed(b.neg, MagSub(b.mag, a.mag))
               ELSE Signed(a.neg, MagSub(a.mag, b.mag))
    IN  [sum EXCEPT !.mag = MagRounded(sum.mag)]

DZero == [m |-> Zeros(Precision), e |-> 0]

DoubleOfFix(b) ==
    IF b = <<>> THEN DZero
    ELSE [m |-> SubSeq(b \o Zeros(Precision), 1, Precision), e |-> Len(b) - Precision]

\* Math.max(0, start + (startSize - newSize)) for integers start and
\* startSize and a number newSize that is at least 1
Anchored(start, startSize, newSize) ==
    LET d == SAdd(Signed(FALSE, FixOfInt(startSize)), Signed(TRUE, FixOfDouble(newSize)))
        v == SAdd(Signed(FALSE, FixOfInt(start)), d)
    IN  IF v.neg THEN DZero ELSE DoubleOfFix(v.mag)

----------------------------------------------------------------------------
(* Resize gesture: onResizeDown                                            *)

Corners == {"tl", "tr", "bl", "br", "l", "r"}

\* resize handles offered by the rendering of an object
HandleShown(b, corner) ==
    /\ Rendered(b)
    /\ CASE TypeOf(b) = "line"  -> selectedIds = <<b.id>>
         [] TypeOf(b) = "arrow" -> Includes(selectedIds, b.id) /\ corner \in {"l", "r"}
         [] TypeOf(b) \in {"undefined", "text"} -> selectedIds = <<b.id>>
         [] OTHER -> FALSE

onResizeDown(id, corner, pt, pid) ==
    /\ gest = NoGesture
    /\ corner \in Corners
    /\ \E i \in DOMAIN boxes : boxes[i].id = id /\ HandleShown(boxes[i], corner)
    /\ historyRef' = PushedHistory(historyRef, boxes)
    /\ redoRef' = <<>>
    /\ resizingRef' = TRUE
    /\ gest' = [kind |-> "resize", id |-> id, corner |-> corner,
                startBox |-> boxes[FindIndex(boxes, id)],
                startX |-> pt.x, startY |-> pt.y, pointerId |-> pid, cur |-> pt]
    /\ op' = Observe("resize")
    /\ UNCHANGED <<boxes, selVars, keyBoxes, placeMode, toolVars, clipboard, layVars, nextId,
                   drawVars, combinePages, ev>>

\* variant of the line branch in which the thickness follows the pointer
ResizedLineByPointer(b, startBox, corner, dx, dy) ==
    LET thickness == Max(1, startBox.h + dy)
        nw == IF corner \in {"l", "tl", "bl"} THEN startBox.w - dx ELSE startBox.w + dx
        nx == IF corner \in {"l", "tl", "bl"} THEN startBox.x + dx ELSE startBox.x
    IN  [b EXCEPT !.x = Max(0, nx), !.y = Max(0, startBox.y),
                  !.w = Max(10, nw), !.h = thickness]

\* the line branch: the vertical metrics are locked
ResizedLine(b, startBox, corner, dx, dy) ==
    LET thickness == Max(1, startBox.h)
        nw == IF corner \in {"l", "tl", "bl"} THEN startBox.w - dx ELSE startBox.w + dx
        nx == IF corner \in {"l", "tl", "bl"} THEN startBox.x + dx ELSE startBox.x
    IN  [b EXCEPT !.x = Max(0, nx), !.y = Max(0, startBox.y),
                  !.w = Max(10, nw), !.h = thickness]

\* variant of the edge branch in which the left edge does not move with the pointer
ResizedEdgePinned(b, startBox, corner, dx) ==
    LET nw == IF corner = "l" THEN startBox.w - dx ELSE startBox.w + dx
        nx == startBox.x
    IN  IF TypeOf(startBox) \in {"undefined", "text"}
        THEN [b EXCEPT !.x = Max(0, nx), !.w = Max(80, nw), !.y = startBox.y,
                       !.h = startBox.h, !.fontSize = startBox.fontSize]
        ELSE [b EXCEPT !.x = Max(0, nx), !.y = Max(0, startBox.y),
                       !.w = Max(80, nw), !.h = Max(40, startBox.h)]

\* the left / right edge branch of boxes that are neither arrows nor lines
\* variant of the edge branch without the minimum width
ResizedEdgeFree(b, startBox, corner, dx) ==
    LET nw == IF corner = "l" THEN startBox.w - dx ELSE startBox.w + dx
        nx == IF corner = "l" THEN startBox.x + dx ELSE startBox.x
    IN  IF TypeOf(startBox) \in {"undefined", "text"}
        THEN [b EXCEPT !.x = Max(0, nx), !.w = nw, !.y = startBox.y,
                       !.h = startBox.h, !.fontSize = startBox.fontSize]
        ELSE [b EXCEPT !.x = Max(0, nx), !.y = Max(0, startBox.y),
                       !.w = nw, !.h = Max(40, startBox.h)]

ResizedEdge(b, startBox, corner, dx) ==
    LET nw == IF corner = "l" THEN startBox.w - dx ELSE startBox.w + dx
        nx == IF corner = "l" THEN startBox.x + dx ELSE startBox.x
    IN  IF TypeOf(startBox) \in {"undefined", "text"}
        THEN [b EXCEPT !.x = Max(0, nx), !.w = Max(80, nw), !.y = startBox.y,
                       !.h = startBox.h, !.fontSize = startBox.fontSize]
        ELSE [b EXCEPT !.x = Max(0, nx), !.y = Max(0, startBox.y),
                       !.w = Max(80, nw), !.h = Max(40, startBox.h)]

\* the body of the resize `move` updater for the object b being resized
\* variant of the corner branch in which each side follows its own request
ResizedCornerBySide(b, startBox, corner, dx, dy) ==
    LET nw == Max(80, IF corner \in {"br", "tr"} THEN startBox.w + dx ELSE startBox.w - dx)
        nh == Max(40, IF corner \in {"br", "bl"} THEN startBox.h + dy ELSE startBox.h - dy)
    IN  [b EXCEPT !.w = ToDouble(nw), !.h = ToDouble(nh)]

\* startBox.fontSize || 16
FontOf(startBox) == IF "fontSize" \in DOMAIN startBox THEN startBox.fontSize ELSE 16

\* variant in which a corner drag leaves the font size as it was
KeptFont(startBox, s) == FontOf(startBox)

\* Math.max(8, Math.round((startBox.fontSize || 16) * s))
ScaledFont(startBox, s) == Max(8, DRound(DMulInt(FontOf(startBox), s)))

\* the corner branch of a generic box: both sides are scaled by the larger
\* of the two requested factors, and so is the font size unless the object
\* is an image
ResizedCorner(b, startBox, corner, dx, dy) ==
    LET nx     == IF corner \in {"bl", "tl"} THEN startBox.x + dx ELSE startBox.x
        ny     == IF corner \in {"tr", "tl"} THEN startBox.y + dy ELSE startBox.y
        nw     == Max(80, IF corner \in {"br", "tr"} THEN startBox.w + dx ELSE startBox.w - dx)
        nh     == Max(40, IF corner \in {"br", "bl"} THEN startBox.h + dy ELSE startBox.h - dy)
        startW == Max(1, startBox.w)
        startH == Max(1, startBox.h)
        sx     == DDiv(nw, startW)
        sy     == DDiv(nh, startH)
        s      == DMax(sx, sy)
        newW   == DMax(ToDouble(80), DMulInt(startW, s))
        newH   == DMax(ToDouble(40), DMulInt(startH, s))
        x      == IF corner \in {"tl", "bl"} THEN Anchored(startBox.x, startW, newW)
                  ELSE Max(0, nx)
        y      == IF corner \in {"tl", "tr"} THEN Anchored(startBox.y, startH, newH)
                  ELSE Max(0, ny)
        sized  == [b EXCEPT !.x = x, !.y = y, !.w = newW, !.h = newH]
    IN  IF TypeOf(startBox) # "image"
        THEN With(sized, "fontSize", ScaledFont(startBox, s))
        ELSE sized

ResizedBox(b, startBox, corner, pt, dx, dy) ==
    IF TypeOf(startBox) = "arrow"
    THEN LET r  == ImgRect(startBox.page)
             cx == Clamp(pt.x - r.left, 0, r.width)
             cy == Clamp(pt.y - r.top, 0, r.height)
         IN  IF corner \in {"tl", "l"} THEN [b EXCEPT !.x = cx, !.y = cy]
             ELSE IF corner \in {"br", "r"} THEN [b EXCEPT !.ex = cx, !.ey = cy]
             ELSE b
    ELSE IF TypeOf(startBox) = "line"
    THEN ResizedLine(b, startBox, corner, dx, dy)
    ELSE IF corner \in {"tl", "tr", "bl", "br"}
    THEN ResizedCorner(b, startBox, corner, dx, dy)
    ELSE ResizedEdge(b, startBox, corner, dx)

ResizeApplied(bs, g, pt) ==
    [i \in DOMAIN bs |->
        IF i = FindIndex(bs, g.id)
        THEN ResizedBox(bs[i], g.startBox, g.corner, pt, pt.x - g.startX, pt.y - g.startY)
        ELSE bs[i]]

----------------------------------------------------------------------------
(* Window listeners of the running box gesture                             *)

\* variant of the move listener that snapshots the collection on every frame
WindowPointerMovePerFrame(pt, pid) ==
    /\ gest # NoGesture
    /\ pid = gest.pointerId
    /\ historyRef' = PushedHistory(historyRef, boxes)
    /\ redoRef' = <<>>
    /\ boxes' = (IF gest.kind = "move" THEN MoveApplied(boxes, gest, pt)
                 ELSE ResizeApplied(boxes, gest, pt))
    /\ gest' = [gest EXCEPT !.cur = pt]
    /\ strokeCacheRef' = SyncCache(boxes')
    /\ UNCHANGED <<selVars, keyBoxes, placeMode, toolVars, clipboard,
                   resizingRef, layVars, nextId, activePointerRef, drawingRef,
                   activeStrokeRef, combinePages, op, ev>>

WindowPointerMove(pt, pid) ==
    /\ gest # NoGesture
    /\ pid = gest.pointerId
    /\ boxes' = (IF gest.kind = "move" THEN MoveApplied(boxes, gest, pt)
                 ELSE ResizeApplied(boxes, gest, pt))
    /\ gest' = [gest EXCEPT !.cur = pt]
    /\ strokeCacheRef' = SyncCache(boxes')
    /\ UNCHANGED <<historyRef, redoRef, selVars, keyBoxes, placeMode, toolVars, clipboard,
                   resizingRef, layVars, nextId, activePointerRef, drawingRef,
                   activeStrokeRef, combinePages, op, ev>>

\* record of a finished drag: selection, delta, page under the release point,
\* collection before and after, and the drag that ended just before it
DropRecord(g, pre, post) ==
    [sel |-> g.sel, dx |-> g.cur.x - g.startX, dy |-> g.cur.y - g.startY,
     target |-> (IF g.combined THEN DropPage(g.cur) ELSE -1), pre |-> pre, post |-> post]

DropEvent(g, pre, post, last) ==
    [type |-> "drop", drag |-> DropRecord(g, pre, post),
     prev |-> (IF last.type = "drop" THEN <<last.drag>> ELSE <<>>)]

\* pointerup / pointercancel; the pointer is released where it was last seen
\* scrollHeight of a textarea as the browser may report it
ScrollHeights == {96, 120}

\* the textarea exists for a text box that is being edited
HasTextarea(b) ==
    /\ Rendered(b)
    /\ TypeOf(b) \in {"undefined", "text"}
    /\ "isEditing" \in DOMAIN b /\ b.isEditing

\* the frame callback of `up` after a corner drag: the height of the
\* resized object is fitted to its textarea, if it has one
Refitted(bs, g, sh) ==
    [i \in DOMAIN bs |->
        IF bs[i].id = g.id /\ g.corner \notin {"l", "r"} /\ HasTextarea(bs[i])
        THEN [bs[i] EXCEPT !.h = Max(40, sh + 4)]
        ELSE bs[i]]

WindowPointerUp(pid) ==
    /\ gest # NoGesture
    /\ pid = gest.pointerId
    /\ IF gest.kind = "move" THEN boxes' = DropApplied(boxes, gest, gest.cur)
       ELSE \E sh \in ScrollHeights : boxes' = Refitted(boxes, gest, sh)
    /\ resizingRef' = (IF gest.kind = "resize" THEN FALSE ELSE resizingRef)
    /\ gest' = NoGesture
    /\ strokeCacheRef' = SyncCache(boxes')
    /\ ev' = (IF gest.kind = "move" THEN DropEvent(gest, op.pre, boxes', ev)
              ELSE [type |-> "release"])
    /\ UNCHANGED <<historyRef, redoRef, selVars, keyBoxes, placeMode, toolVars, clipboard,
                   layVars, nextId, activePointerRef, drawingRef, activeStrokeRef,
                   combinePages, op>>

----------------------------------------------------------------------------
(* Draw / erase tools on the page view                                     *)

\* variant of the draw toggle that leaves the erase tool as it is
ToggleDrawAlone ==
    /\ gest = NoGesture
    /\ drawMode' = ~drawMode
    /\ op' = Observe("toggleDraw")
    /\ UNCHANGED <<histVars, selVars, keyBoxes, placeMode, clipboard, gest, resizingRef,
                   layVars, nextId, drawVars, combinePages, ev, eraserMode>>

\* toolbar toggles: activating one tool deactivates the other
ToggleDraw ==
    /\ gest = NoGesture
    /\ drawMode' = ~drawMode
    /\ eraserMode' = (IF ~drawMode THEN FALSE ELSE eraserMode)
    /\ op' = Observe("toggleDraw")
    /\ UNCHANGED <<histVars, selVars, keyBoxes, placeMode, clipboard, gest, resizingRef,
                   layVars, nextId, drawVars, combinePages, ev>>

ToggleEraser ==
    /\ gest = NoGesture
    /\ eraserMode' = ~eraserMode
    /\ drawMode' = (IF ~eraserMode THEN FALSE ELSE drawMode)
    /\ op' = Observe("toggleEraser")
    /\ UNCHANGED <<histVars, selVars, keyBoxes, placeMode, clipboard, gest, resizingRef,
                   layVars, nextId, drawVars, combinePages, ev>>

\* pointers that can reach the page view: id and pointerType
Pointers == { [id |-> 1, type |-> "mouse"], [id |-> 2, type |-> "touch"],
              [id |-> 3, type |-> "pen"] }

\* variant of the device detection that knows pen and mouse only
detectInputDeviceNoTouch(ptr) == IF ptr.type = "pen" THEN "pen" ELSE "mouse"

detectInputDevice(ptr) ==
    IF ptr.type = "pen" THEN "pen" ELSE IF ptr.type = "touch" THEN "touch" ELSE "mouse"

EraseRadius == 12
DrawThreshold == 2

\* variant of the hit test that looks at the first sample point only
IntersectsFirstPoint(stroke, x, y) ==
    /\ stroke.points # <<>>
    /\ LET dx == (stroke.points[1].x + stroke.offsetX) - x
           dy == (stroke.points[1].y + stroke.offsetY) - y
       IN  dx * dx + dy * dy <= EraseRadius * EraseRadius

\* some sample point of the stroke, with its offset applied, within the radius
Intersects(stroke, x, y) ==
    \E k \in DOMAIN stroke.points :
        LET dx == (stroke.points[k].x + stroke.offsetX) - x
            dy == (stroke.points[k].y + stroke.offsetY) - y
        IN  dx * dx + dy * dy <= EraseRadius * EraseRadius

\* eraseStrokeAt: ids removed, computed from the stroke cache of the page
RemovedIds(cache, pageIdx, x, y) ==
    {cache[pageIdx][k].id : k \in {k \in DOMAIN cache[pageIdx] : Intersects(cache[pageIdx][k], x, y)}}

\* variant of the eraser that rubs out the sample points within the radius
\* and keeps the rest of the stroke
eraseStrokePartly(bs, cache, pageIdx, x, y) ==
    LET Rubbed(b) ==
            [b EXCEPT !.points =
                SelectSeq(b.points,
                          LAMBDA q : (q.x + b.offsetX - x) * (q.x + b.offsetX - x)
                                       + (q.y + b.offsetY - y) * (q.y + b.offsetY - y)
                                     > EraseRadius * EraseRadius)]
        rubbed == [i \in DOMAIN bs |->
                      IF TypeOf(bs[i]) = "draw" /\ bs[i].page = pageIdx THEN Rubbed(bs[i])
                      ELSE bs[i]]
    IN  FilterSeq(rubbed, {i \in DOMAIN rubbed :
                               ~(TypeOf(rubbed[i]) = "draw" /\ rubbed[i].points = <<>>)})

\* eraseStrokeAt: the collection after setBoxes(prev => prev.filter(...))
eraseStrokeAt(bs, cache, pageIdx, x, y) ==
    LET removedIds == RemovedIds(cache, pageIdx, x, y)
    IN  FilterSeq(bs, {i \in DOMAIN bs : ~(TypeOf(bs[i]) = "draw" /\ bs[i].id \in removedIds)})

\* {...b, isEditing: false}
NotEditing(b) == [f \in (DOMAIN b) \cup {"isEditing"} |-> IF f = "isEditing" THEN FALSE ELSE b[f]]

handlePagePointerDown(ptr, pt) ==
    /\ gest = NoGesture
    /\ ev' = [type |-> "down", id |-> ptr.id,
              erased |-> IF /\ eraserMode /\ ~drawMode
                            /\ detectInputDevice(ptr) \in {"pen", "mouse"}
                            /\ LocatePage(pt) # -1
                         THEN << [page |-> LocatePage(pt),
                                  x |-> pt.x - ImgRect(LocatePage(pt)).left,
                                  y |-> pt.y - ImgRect(LocatePage(pt)).top, pre |-> boxes] >>
                         ELSE <<>>]
    /\ IF drawMode \/ eraserMode
       THEN IF detectInputDevice(ptr) \notin {"pen", "mouse"}
            THEN /\ activePointerRef' = 0
                 /\ UNCHANGED <<histVars, selVars, keyBoxes, nextId, drawingRef,
                                activeStrokeRef, strokeCacheRef, op>>
            ELSE /\ historyRef' = PushedHistory(historyRef, boxes)
                 /\ redoRef' = <<>>
                 /\ LET tpi == LocatePage(pt)
                    IN  IF tpi = -1
                        THEN /\ op' = Observe("drawMiss")
                             /\ UNCHANGED <<boxes, selVars, keyBoxes, nextId, drawVars>>
                        ELSE LET r == ImgRect(tpi)
                                 x == pt.x - r.left
                                 y == pt.y - r.top
                             IN  /\ activePointerRef' = ptr.id
                                 /\ drawingRef' = [active |-> TRUE,
                                                   mode |-> (IF drawMode THEN "draw" ELSE "erase"),
                                                   page |-> tpi]
                                 /\ IF drawMode
                                    THEN /\ activeStrokeRef' =
                                              << [id |-> nextId, type |-> "draw", page |-> tpi,
                                                  points |-> << [x |-> x, y |-> y] >>,
                                                  strokeWidth |-> 3, offsetX |-> 0, offsetY |-> 0] >>
                                         /\ nextId' = nextId + 1
                                         /\ op' = Observe("draw")
                                         /\ UNCHANGED <<boxes, strokeCacheRef>>
                                    ELSE /\ boxes' = eraseStrokeAt(boxes, strokeCacheRef, tpi, x, y)
                                         /\ strokeCacheRef' = SyncCache(boxes')
                                         /\ op' = Observe("erase")
                                         /\ UNCHANGED <<nextId, activeStrokeRef>>
                                 /\ UNCHANGED <<selVars, keyBoxes>>
       ELSE /\ activePointerRef' = 0
            /\ IF placeMode # "none"
               THEN UNCHANGED <<histVars, selVars, keyBoxes, strokeCacheRef, op>>
               ELSE /\ selectedId' = 0
                    /\ selectedIds' = <<>>
                    /\ boxes' = [i \in DOMAIN boxes |-> NotEditing(boxes[i])]
                    /\ keyBoxes' = boxes'
                    /\ strokeCacheRef' = SyncCache(boxes')
                    /\ op' = Observe("deselect")
                    /\ UNCHANGED <<historyRef, redoRef>>
            /\ UNCHANGED <<nextId, drawingRef, activeStrokeRef>>
    /\ UNCHANGED <<placeMode, toolVars, clipboard, gest, resizingRef, layVars, combinePages>>

\* the event is dropped when a pointer is captured and it is from another one
PointerAccepted(ptr) == activePointerRef = 0 \/ ptr.id = activePointerRef

handlePagePointerMove(ptr, pt) ==
    /\ gest = NoGesture
    /\ IF ~PointerAccepted(ptr) \/ ~drawingRef.active
       THEN /\ ev' = [type |-> "move", id |-> ptr.id, erased |-> <<>>]
            /\ UNCHANGED <<boxes, activeStrokeRef, strokeCacheRef>>
       ELSE IF drawingRef.mode = "draw"
       THEN /\ ev' = [type |-> "move", id |-> ptr.id, erased |-> <<>>]
            /\ IF activeStrokeRef = <<>> THEN UNCHANGED activeStrokeRef
               ELSE LET active == activeStrokeRef[1]
                        rect == ImgRect(active.page)
                        x == Clamp(pt.x - rect.left, 0, rect.width)
                        y == Clamp(pt.y - rect.top, 0, rect.height)
                        last == active.points[Len(active.points)]
                        dx == x - last.x
                        dy == y - last.y
                    IN  IF dx * dx + dy * dy < DrawThreshold * DrawThreshold
                        THEN UNCHANGED activeStrokeRef
                        ELSE /\ activeStrokeRef' =
                                  << [active EXCEPT !.points = Append(@, [x |-> x, y |-> y])] >>
            /\ UNCHANGED <<boxes, strokeCacheRef>>
       ELSE LET pageIdx == drawingRef.page
                rect == ImgRect(pageIdx)
                x == Clamp(pt.x - rect.left, 0, rect.width)
                y == Clamp(pt.y - rect.top, 0, rect.height)
            IN  /\ boxes' = eraseStrokeAt(boxes, strokeCacheRef, pageIdx, x, y)
                /\ strokeCacheRef' = SyncCache(boxes')
                /\ ev' = [type |-> "move", id |-> ptr.id,
                          erased |-> << [page |-> pageIdx, x |-> x, y |-> y, pre |-> boxes] >>]
                /\ UNCHANGED activeStrokeRef
    /\ UNCHANGED <<historyRef, redoRef, selVars, keyBoxes, placeMode, toolVars, clipboard,
                   gest, resizingRef, layVars, nextId, activePointerRef, drawingRef,
                   combinePages, op>>

\* pointerup / pointercancel on the page view
handlePagePointerUp(ptr) ==
    /\ gest = NoGesture
    /\ ev' = [type |-> "up", id |-> ptr.id, erased |-> <<>>]
    /\ IF ~PointerAccepted(ptr)
       THEN UNCHANGED <<boxes, drawVars>>
       ELSE /\ IF drawingRef.active /\ drawingRef.mode = "draw"
               THEN /\ boxes' = (IF activeStrokeRef # <<>>
                                 THEN Append(boxes, activeStrokeRef[1]) ELSE boxes)
                    /\ strokeCacheRef' = SyncCache(boxes')
                    /\ activeStrokeRef' = <<>>
               ELSE UNCHANGED <<boxes, activeStrokeRef, strokeCacheRef>>
            /\ activePointerRef' = 0
            /\ drawingRef' = [active |-> FALSE]
    /\ UNCHANGED <<historyRef, redoRef, selVars, keyBoxes, placeMode, toolVars, clipboard,
                   gest, resizingRef, layVars, nextId, combinePages, op>>

----------------------------------------------------------------------------
(* Auto-layout: runAutoLayout awaits the layout service, then maps the     *)
(* returned placements into objects.  The continuation runs in the closure *)
(* of the render in which the button was clicked.                          *)

\* placements offered by the layout service (source raster coordinates);
\* page 7 has no rendered surface
SugA == [type |-> "text", page |-> 0, x |-> 10, y |-> 20, w |-> 30, h |-> 10,
         page_w |-> 200, page_h |-> 200, ctype |-> "comment", points |-> 0, qid |-> 0]
SugB == [type |-> "text", page |-> 1, x |-> 0, y |-> 40, w |-> 10, h |-> 10,
         page_w |-> 100, page_h |-> 100, ctype |-> "score", points |-> 2, qid |-> 0]
SugQ == [type |-> "text", page |-> 0, x |-> 20, y |-> 60, w |-> 20, h |-> 10,
         page_w |-> 100, page_h |-> 100, ctype |-> "comment", points |-> 0, qid |-> 1]
SugLost == [type |-> "text", page |-> 7, x |-> 0, y |-> 0, w |-> 10, h |-> 10,
            page_w |-> 100, page_h |-> 100, ctype |-> "comment", points |-> 0, qid |-> 0]
SugMark == [SugA EXCEPT !.type = "score"]

LayoutResponses ==
    { <<>>, <<SugLost>>, <<SugA, SugLost>>, <<SugLost, SugA, SugA>>, <<SugB, SugLost>>,
      <<SugQ, SugLost>>, <<SugMark, SugA>> }

LayoutMargin == 8

\* a placement is applied when it is of type text and its page has a surface
Resolvable(p) == p.type = "text" /\ p.page \in RenderedPages

\* the projected position of the comment box of placement p
PlacementPos(p) ==
    LET r  == ImgRect(p.page)
        bx == (p.x * r.width) \div p.page_w
        by == (p.y * r.height) \div p.page_h
        bw == (p.w * r.width) \div p.page_w
    IN  [x |-> Clamp(bx + Max(12, bw + LayoutMargin), 0, r.width - 20),
         y |-> Clamp(by, 0, r.height - 20)]

IsScore(p) == p.ctype = "score"

\* objects created for one applied placement, with ids from id upwards
PlacementObjects(p, id) ==
    LET pos == PlacementPos(p)
        box == NewTextBox(id, p.page, pos.x, pos.y, 360, 100, 14, FALSE, FALSE, "comment")
    IN  IF IsScore(p)
        THEN << box, NewScoreMarker(id + 1, p.page, Max(0, pos.x - 64),
                                   Max(0, pos.y + 100 - 29), p.points) >>
        ELSE << box >>

RECURSIVE PlacedObjects(_, _)
\* placements.forEach: the objects appended, in order
PlacedObjects(ps, id) ==
    IF ps = <<>> THEN <<>>
    ELSE IF Resolvable(ps[1])
         THEN LET objs == PlacementObjects(ps[1], id)
              IN  objs \o PlacedObjects(Tail(ps), id + Len(objs))
         ELSE PlacedObjects(Tail(ps), id)

\* firstCommentTopByQ: per question id, the top-most placed comment
QuestionIds(ps) == {ps[i].qid : i \in {i \in DOMAIN ps : Resolvable(ps[i]) /\ ps[i].qid # 0}}
FirstCommentTop(ps, q) ==
    LET idxs == {i \in DOMAIN ps : Resolvable(ps[i]) /\ ps[i].qid = q}
        best == CHOOSE i \in idxs :
                    \A j \in idxs : \/ PlacementPos(ps[i]).y < PlacementPos(ps[j]).y
                                    \/ (PlacementPos(ps[i]).y = PlacementPos(ps[j]).y /\ i <= j)
    IN  [idx |-> ps[best].page, y |-> PlacementPos(ps[best]).y]

RECURSIVE QuestionLabels(_, _, _)
\* one aggregate score label per question, in key order
QuestionLabels(ps, qs, id) ==
    IF qs = {} THEN <<>>
    ELSE LET q   == CHOOSE q \in qs : \A o \in qs : q <= o
             pos == FirstCommentTop(ps, q)
         IN  << NewTextBox(id, pos.idx, 20, Max(0, pos.y - 26), 120, 24, 16, FALSE, TRUE, "label") >>
             \o QuestionLabels(ps, qs \ {q}, id + 1)

LayoutObjects(ps, id) ==
    LET placed == PlacedObjects(ps, id)
    IN  placed \o QuestionLabels(ps, QuestionIds(ps), id + Len(placed))

RECURSIVE PushedTimes(_, _, _)
\* n successive pushHistory calls of a closure whose `boxes` is b
PushedTimes(h, b, n) == IF n = 0 THEN h ELSE PushedTimes(PushedHistory(h, b), b, n - 1)

\* pushHistory calls of one run: its own, and one inside every addBox and
\* addScoreMarker
LayoutPushes(ps, id) == 1 + Len(LayoutObjects(ps, id))

\* variant of the click handler that snapshots the collection before the fetch
runAutoLayoutEager ==
    /\ gest = NoGesture
    /\ ~autoPlacing
    /\ autoPlacing' = TRUE
    /\ layoutBoxes' = boxes
    /\ historyRef' = PushedHistory(historyRef, boxes)
    /\ redoRef' = <<>>
    /\ op' = Observe("layoutRequest")
    /\ UNCHANGED <<boxes, selVars, keyBoxes, placeMode, toolVars, clipboard, gest,
                   resizingRef, nextId, drawVars, combinePages, ev>>

\* click on the auto-layout button (disabled while a run is in flight)
runAutoLayout ==
    /\ gest = NoGesture
    /\ ~autoPlacing
    /\ autoPlacing' = TRUE
    /\ layoutBoxes' = boxes
    /\ op' = Observe("layoutRequest")
    /\ UNCHANGED <<histVars, selVars, keyBoxes, placeMode, toolVars, clipboard, gest,
                   resizingRef, nextId, drawVars, combinePages, ev>>

\* the fetch rejects, or the response is not OK: catch + finally
LayoutFailed ==
    /\ gest = NoGesture
    /\ autoPlacing
    /\ autoPlacing' = FALSE
    /\ layoutBoxes' = <<>>
    /\ op' = Observe("layoutFailed")
    /\ UNCHANGED <<histVars, selVars, keyBoxes, placeMode, toolVars, clipboard, gest,
                   resizingRef, nextId, drawVars, combinePages, ev>>

\* the response arrives with placements ps
LayoutApplied(ps) ==
    /\ gest = NoGesture
    /\ autoPlacing
    /\ ps \in LayoutResponses
    /\ autoPlacing' = FALSE
    /\ layoutBoxes' = <<>>
    /\ IF ps = <<>>
       THEN /\ op' = Observe("layoutEmpty")
            /\ UNCHANGED <<histVars, nextId, strokeCacheRef>>
       ELSE LET objs == LayoutObjects(ps, nextId)
            IN  /\ historyRef' = PushedTimes(historyRef, layoutBoxes, LayoutPushes(ps, nextId))
                /\ redoRef' = <<>>
                /\ boxes' = boxes \o objs
                /\ nextId' = nextId + Len(objs)
                /\ strokeCacheRef' = SyncCache(boxes')
                /\ op' = Observe("layout")
    \* notify(... placements.length ...): the count shown to the user
    /\ ev' = [type |-> "layout", placements |-> ps,
              reported |-> IF ps = <<>> THEN <<>> ELSE << Len(ps) >>]
    /\ UNCHANGED <<selVars, keyBoxes, placeMode, toolVars, clipboard, gest, resizingRef,
                   activePointerRef, drawingRef, activeStrokeRef, combinePages>>

----------------------------------------------------------------------------
(* Specifications                                                          *)

\* an event is delivered while the budget n of the specification lasts;
\* references are followed by SpecAlias only
\* the closure's placeMode is read by Escape only; SpecEscape tracks it
\* the stroke render scheduler, followed in its own section
renderVars == <<drawQueueRef, drawFrameRef, canvasRefs, frames, mounted, painted>>
\* the editing timer and the curation build queue, likewise
timerVars == <<unflushedSeconds, unflushedRef, lastFlush, timerOn, requests, timeLog>>
buildVars == <<buildStatuses, buildQueue, runningKeys, tasks>>
\* everything outside the editor's own state
envVars == <<renderVars, timerVars, buildVars>>

Budget(n) ==
    /\ ops < n /\ ops' = ops + 1
    /\ mem' = mem /\ keyPlaceMode' = keyPlaceMode
    /\ UNCHANGED envVars

Modifier == {FALSE}
P0 == [x |-> 10, y |-> 10]
GesturePts == { P0, [x |-> 40, y |-> 10] }

PlaceStep == Budget(MaxOps) /\ SetPlaceMode("line")
PageClickStep == Budget(MaxOps) /\ handlePageClick(P0)
SelectStep == Budget(MaxOps) /\ \E id \in Ids(boxes), m \in Modifier : ClickBox(id, m)
RemoveBoxStep == Budget(MaxOps) /\ \E id \in Ids(boxes) : removeBox(id)
RemoveSelectedStep == Budget(MaxOps) /\ removeSelected
MoveDownStep == Budget(MaxOps) /\ \E id \in Ids(boxes), m \in Modifier : onPointerDownBox(id, P0, m, 1)
ResizeDownStep == Budget(MaxOps) /\ \E id \in Ids(boxes) : onResizeDown(id, "r", P0, 1)
WindowMoveStep == Budget(MaxOps) /\ \E pt \in GesturePts : WindowPointerMove(pt, 1)
WindowUpStep == Budget(MaxOps) /\ WindowPointerUp(1)
ToolbarUndoStep == Budget(MaxOps) /\ ToolbarUndo
ToolbarRedoStep == Budget(MaxOps) /\ ToolbarRedo
KeyUndoStep == Budget(MaxOps) /\ KeyUndo
KeyRedoStep == Budget(MaxOps) /\ KeyRedo
KeyDeleteStep == Budget(MaxOps) /\ KeyDelete
NudgeStep == Budget(MaxOps) /\ KeyNudge("ArrowUp", TRUE)
CopyStep == Budget(MaxOps) /\ KeyCopy
PasteStep == Budget(MaxOps) /\ KeyPaste

\* the editor under placement, selection, move, resize, delete, copy/paste
\* and undo/redo by toolbar and by keyboard
Next ==
    \/ PlaceStep
    \/ PageClickStep
    \/ SelectStep
    \/ RemoveBoxStep
    \/ RemoveSelectedStep
    \/ MoveDownStep
    \/ ResizeDownStep
    \/ WindowMoveStep
    \/ WindowUpStep
    \/ ToolbarUndoStep
    \/ ToolbarRedoStep
    \/ KeyUndoStep
    \/ KeyRedoStep
    \/ KeyDeleteStep
    \/ NudgeStep
    \/ CopyStep
    \/ PasteStep

Spec == Init /\ [][Next]_vars

----------------------------------------------------------------------------
(* Claims about the history manager                                        *)

OpKinds == {"place", "move", "resize", "delete"}

\* C1: undo invoked immediately after a place, move, resize or delete
\* operation makes the collection equal to the collection as it was just
\* before that operation.
C1_UndoRestoresPrior ==
    [][(op.kind \in OpKinds /\ gest = NoGesture /\ op'.kind = "undo") => boxes' = op.pre]_vars

\* C2: redo invoked right after an undo pops the redo stack, pushes the
\* current collection onto the undo stack and makes the collection equal
\* to the collection as it was immediately before that undo.
C2_RedoMirrorsUndo ==
    [][(op.kind = "undo" /\ op'.kind = "redo") =>
            /\ redoRef' = Front(redoRef)
            /\ historyRef' = Append(historyRef, boxes)
            /\ boxes' = op.pre]_vars

\* C3: every place, delete or paste step that changes the collection, and
\* every start of a move or resize gesture, pushes the collection as it is
\* just before the step onto the undo stack and empties the redo stack.
C3_MutationPushesFirst ==
    [][(\/ op'.kind \in {"place", "delete", "paste"} /\ boxes' # boxes
        \/ gest = NoGesture /\ gest' # NoGesture) =>
            /\ Len(historyRef') > Len(historyRef)
            /\ Last(historyRef') = boxes
            /\ redoRef' = <<>>]_vars

----------------------------------------------------------------------------
(* Gestures: drag-move, resize-drag, draw and erase, followed by undo      *)

GestureKinds == {"move", "resize", "draw", "erase"}
GesturePointers == { p \in Pointers : p.type \in {"mouse", "pen"} }

GPlaceStep == Budget(MaxGestureOps) /\ \E kind \in {"line", "arrow"} : SetPlaceMode(kind)
GPageClickStep == Budget(MaxGestureOps) /\ handlePageClick(P0)
GSelectStep == Budget(MaxGestureOps) /\ \E id \in Ids(boxes) : ClickBox(id, FALSE)
GMoveDownStep == Budget(MaxGestureOps) /\ \E id \in Ids(boxes) : onPointerDownBox(id, P0, FALSE, 1)
GResizeDownStep ==
    Budget(MaxGestureOps) /\ \E id \in Ids(boxes), c \in {"l", "r"} : onResizeDown(id, c, P0, 1)
GWindowMoveStep == Budget(MaxGestureOps) /\ \E pt \in GesturePts : WindowPointerMove(pt, 1)
GWindowUpStep == Budget(MaxGestureOps) /\ WindowPointerUp(1)
GToggleDrawStep == Budget(MaxGestureOps) /\ ToggleDraw
GToggleEraserStep == Budget(MaxGestureOps) /\ ToggleEraser
GPageDownStep ==
    Budget(MaxGestureOps) /\ \E ptr \in GesturePointers, pt \in GesturePts : handlePagePointerDown(ptr, pt)
GPageMoveStep ==
    Budget(MaxGestureOps) /\ \E ptr \in GesturePointers, pt \in GesturePts : handlePagePointerMove(ptr, pt)
GPageUpStep == Budget(MaxGestureOps) /\ \E ptr \in GesturePointers : handlePagePointerUp(ptr)
GUndoStep == Budget(MaxGestureOps) /\ ToolbarUndo

NextGesture ==
    \/ GPlaceStep
    \/ GPageClickStep
    \/ GSelectStep
    \/ GMoveDownStep
    \/ GResizeDownStep
    \/ GWindowMoveStep
    \/ GWindowUpStep
    \/ GToggleDrawStep
    \/ GToggleEraserStep
    \/ GPageDownStep
    \/ GPageMoveStep
    \/ GPageUpStep
    \/ GUndoStep

SpecGesture == Init /\ [][NextGesture]_vars

\* the last event started a gesture that has since run to its release
GestureDone == op.kind \in GestureKinds /\ gest = NoGesture /\ ~drawingRef.active

\* C4: from the start of a drag-move, resize-drag, draw or erase gesture
\* until the next command, the undo stack is exactly one entry longer than
\* before the gesture and that entry is the collection as it was before the
\* gesture; an undo issued after the release restores that collection.
C4_GestureOneSnapshot ==
    /\ [](op.kind \in GestureKinds =>
              /\ Len(historyRef) = op.hlen + 1
              /\ Last(historyRef) = op.pre)
    /\ [][(GestureDone /\ op'.kind = "undo") => boxes' = op.pre]_vars

\* a released gesture of each kind that changed the collection
C4_Witness ==
    /\ GestureDone
    /\ op.kind = "erase"
    /\ boxes # op.pre
    /\ Len(historyRef) >= 2

----------------------------------------------------------------------------
(* Auto-layout runs interleaved with placement, drag-move and undo/redo    *)

LPlaceStep == Budget(MaxLayoutOps) /\ SetPlaceMode("line")
LPageClickStep == Budget(MaxLayoutOps) /\ handlePageClick(P0)
LMoveDownStep == Budget(MaxLayoutOps) /\ \E id \in Ids(boxes) : onPointerDownBox(id, P0, FALSE, 1)
LWindowMoveStep == Budget(MaxLayoutOps) /\ WindowPointerMove([x |-> 40, y |-> 10], 1)
LWindowUpStep == Budget(MaxLayoutOps) /\ WindowPointerUp(1)
LUndoStep == Budget(MaxLayoutOps) /\ ToolbarUndo
LRedoStep == Budget(MaxLayoutOps) /\ ToolbarRedo
LRequestStep == Budget(MaxLayoutOps) /\ runAutoLayout
LFailStep == Budget(MaxLayoutOps) /\ LayoutFailed
LApplyStep == Budget(MaxLayoutOps) /\ \E ps \in LayoutResponses : LayoutApplied(ps)

NextLayout ==
    \/ LPlaceStep
    \/ LPageClickStep
    \/ LMoveDownStep
    \/ LWindowMoveStep
    \/ LWindowUpStep
    \/ LUndoStep
    \/ LRedoStep
    \/ LRequestStep
    \/ LFailStep
    \/ LApplyStep

SpecLayout == Init /\ [][NextLayout]_vars

\* the step applies a non-empty layout response
LayoutStep == autoPlacing /\ ~autoPlacing' /\ op'.kind = "layout"

\* entries of a response by whether their page has a surface
ResolvableIn(ps) == {i \in DOMAIN ps : Resolvable(ps[i])}
UnresolvableIn(ps) == DOMAIN ps \ ResolvableIn(ps)

\* the comment boxes among the objects a step appended
AddedComments(old, new) ==
    {i \in (Len(old) + 1)..Len(new) : TypeOf(new[i]) = "undefined" /\ new[i].text = "comment"}

\* C5: a run over N page-resolvable entries and one unresolvable entry
\* appends the comment boxes of exactly the N resolvable entries and grows
\* the undo stack by exactly one snapshot; an undo right after the run
\* removes everything the run added.
C5_LayoutSingleUndoStep ==
    /\ [][(LayoutStep /\ Cardinality(UnresolvableIn(ev'.placements)) = 1) =>
              /\ SubSeq(boxes', 1, Len(boxes)) = boxes
              /\ Cardinality(AddedComments(boxes, boxes')) =
                     Cardinality(ResolvableIn(ev'.placements))
              /\ Len(historyRef') = Len(historyRef) + 1]_vars
    /\ [][(op.kind = "layout" /\ ev.type = "layout"
              /\ Cardinality(UnresolvableIn(ev.placements)) = 1
              /\ op'.kind = "undo") => boxes' = op.pre]_vars

\* C6: when the collection changed while the request was in flight, the
\* snapshot on top of the undo stack after the response is applied is the
\* collection as it stood immediately before the application, and an undo
\* right after it restores that collection, mid-fetch change included.
C6_LayoutSnapshotIsCurrent ==
    /\ [][(LayoutStep /\ boxes # layoutBoxes) => Last(historyRef') = boxes]_vars
    /\ [][(op.kind = "layout" /\ op'.kind = "undo") => boxes' = op.pre]_vars

\* C8: neither the click that issues the request nor its failure (fetch
\* rejected or response not OK) changes the collection, the undo stack or
\* the redo stack.
C8_LayoutFailureNoChange ==
    [][((autoPlacing # autoPlacing') /\ op'.kind \in {"layoutRequest", "layoutFailed"}) =>
            UNCHANGED <<boxes, historyRef, redoRef>>]_vars

\* a failed run over a non-empty collection with both stacks non-empty
C8_Witness ==
    /\ op.kind = "layoutFailed"
    /\ ~autoPlacing
    /\ boxes # <<>>
    /\ historyRef # <<>>
    /\ redoRef # <<>>

----------------------------------------------------------------------------
(* Free-hand drawing and erasing with mouse, touch and pen                 *)

\* client positions: three on page 0 forming the corner stroke, one far
\* from them on page 0, one on page 1
DrawPts ==
    { [x |-> 0, y |-> 0], [x |-> 10, y |-> 0], [x |-> 10, y |-> 10],
      [x |-> 60, y |-> 60], [x |-> 10, y |-> PageSize.h + 10] }

\* the drawing pointer of this specification
Mouse == CHOOSE p \in Pointers : p.type = "mouse"

DToggleDrawStep == Budget(MaxDrawOps) /\ ToggleDraw
DToggleEraserStep == Budget(MaxDrawOps) /\ ToggleEraser
DPageDownStep == Budget(MaxDrawOps) /\ \E pt \in DrawPts : handlePagePointerDown(Mouse, pt)
DPageMoveStep == Budget(MaxDrawOps) /\ \E pt \in DrawPts : handlePagePointerMove(Mouse, pt)
DPageUpStep == Budget(MaxDrawOps) /\ handlePagePointerUp(Mouse)

NextDraw ==
    \/ DToggleDrawStep
    \/ DToggleEraserStep
    \/ DPageDownStep
    \/ DPageMoveStep
    \/ DPageUpStep

SpecDraw == Init /\ [][NextDraw]_vars

\* the stroke has a sample point, offset applied, within the erase radius of (x, y)
WithinRadius(b, x, y) ==
    \E k \in DOMAIN b.points :
        (b.points[k].x + b.offsetX - x) * (b.points[k].x + b.offsetX - x)
          + (b.points[k].y + b.offsetY - y) * (b.points[k].y + b.offsetY - y)
            <= EraseRadius * EraseRadius

\* the collection without the draw strokes of the page that qualify
WithoutErased(bs, page, x, y) ==
    FilterSeq(bs, {i \in DOMAIN bs :
                     ~(TypeOf(bs[i]) = "draw" /\ bs[i].page = page /\ WithinRadius(bs[i], x, y))})

CornerStroke == << [x |-> 0, y |-> 0], [x |-> 10, y |-> 0], [x |-> 10, y |-> 10] >>

DrawsOn(bs, page) == {i \in DOMAIN bs : TypeOf(bs[i]) = "draw" /\ bs[i].page = page}

\* the event being delivered erases at a point of a page of the collection
Erasing == /\ ev'.type \in {"down", "move"}
           /\ ev'.erased # <<>>
           /\ ev'.erased[1].pre = boxes

\* C9: an erase at (x, y) of a page leaves the collection without exactly
\* the draw strokes of that page having a sample point, offset applied,
\* within the erase radius, everything else kept in order; and erasing at
\* (10,0) on page 0 when its only stroke runs (0,0),(10,0),(10,10) leaves
\* page 0 without draw objects.
C9_EraseExactlyWithinRadius ==
    /\ [][Erasing => boxes' = WithoutErased(boxes, ev'.erased[1].page,
                                            ev'.erased[1].x, ev'.erased[1].y)]_vars
    /\ [][(/\ Erasing
           /\ ev'.erased[1].page = 0 /\ ev'.erased[1].x = 10 /\ ev'.erased[1].y = 0
           /\ DrawsOn(boxes, 0) # {}
           /\ \A i \in DrawsOn(boxes, 0) : boxes[i].points = CornerStroke) =>
               DrawsOn(boxes', 0) = {}]_vars

\* the corner stroke, alone on page 0, has just been erased at (10,0)
C9_Witness ==
    /\ ev.type \in {"down", "move"}
    /\ ev.erased # <<>>
    /\ ev.erased[1].page = 0 /\ ev.erased[1].x = 10 /\ ev.erased[1].y = 0
    /\ DrawsOn(ev.erased[1].pre, 0) # {}
    /\ \A i \in DrawsOn(ev.erased[1].pre, 0) : ev.erased[1].pre[i].points = CornerStroke
    /\ DrawsOn(boxes, 0) = {}

----------------------------------------------------------------------------
(* Several pointers on the page view while a draw or erase tool is active  *)

TToggleDrawStep == Budget(MaxPointerOps) /\ ToggleDraw
TToggleEraserStep == Budget(MaxPointerOps) /\ ToggleEraser
TPageDownStep ==
    Budget(MaxPointerOps) /\ \E ptr \in Pointers, pt \in GesturePts : handlePagePointerDown(ptr, pt)
TPageMoveStep ==
    Budget(MaxPointerOps) /\ \E ptr \in Pointers, pt \in GesturePts : handlePagePointerMove(ptr, pt)
TPageUpStep == Budget(MaxPointerOps) /\ \E ptr \in Pointers : handlePagePointerUp(ptr)

NextPointers ==
    \/ TToggleDrawStep
    \/ TToggleEraserStep
    \/ TPageDownStep
    \/ TPageMoveStep
    \/ TPageUpStep

SpecPointers == Init /\ [][NextPointers]_vars

\* C7: while a draw or erase gesture holds a captured pointer id, a down,
\* move or up event of any other pointer id leaves the captured id, the
\* active stroke and the gesture record as they are.
C7_ForeignPointerIgnored ==
    [][(/\ drawingRef.active
        /\ activePointerRef # 0
        /\ ev'.type \in {"down", "move", "up"}
        /\ ev'.id # activePointerRef) =>
            UNCHANGED <<activePointerRef, activeStrokeRef, drawingRef>>]_vars

----------------------------------------------------------------------------
(* Drag-move of lines placed at two positions, one drag after another      *)

ClickPts == { [x |-> 105, y |-> 20], [x |-> 195, y |-> PageSize.h + 20] }
MovePts == { [x |-> px, y |-> py] : px \in {110, 120}, py \in {20, 50, 120} }

EdgeGrab == 10

\* the pointer-down on a line reaches onPointerDownBox: inside its rectangle
\* and, when the line is the single selection, outside the edge grab zones
MoveGrab(b, pt) ==
    LET r    == ImgRect(b.page)
        relX == pt.x - (r.left + b.x)
        relY == pt.y - (r.top + b.y)
    IN  /\ TypeOf(b) = "line"
        /\ relX >= 0 /\ relX <= b.w /\ relY >= 0 /\ relY <= b.h
        /\ ~(selectedIds = <<b.id>> /\ (relX <= EdgeGrab \/ relX >= b.w - EdgeGrab))

MPlaceStep == Budget(MaxMoveOps) /\ SetPlaceMode("line")
MPageClickStep == Budget(MaxMoveOps) /\ \E pt \in ClickPts : handlePageClick(pt)
MMoveDownStep ==
    Budget(MaxMoveOps) /\ \E i \in DOMAIN boxes, pt \in MovePts, multi \in BOOLEAN :
                              MoveGrab(boxes[i], pt) /\ onPointerDownBox(boxes[i].id, pt, multi, 1)
MWindowMoveStep == Budget(MaxMoveOps) /\ \E pt \in MovePts : WindowPointerMove(pt, 1)
MWindowUpStep == Budget(MaxMoveOps) /\ WindowPointerUp(1)

NextMove ==
    \/ MPlaceStep
    \/ MPageClickStep
    \/ MMoveDownStep
    \/ MWindowMoveStep
    \/ MWindowUpStep

SpecMove == Init /\ [][NextMove]_vars

Position(b) ==
    IF TypeOf(b) = "arrow" THEN <<b.page, b.x, b.y, b.ex, b.ey>> ELSE <<b.page, b.x, b.y>>

\* the objects of collection bs that drag d moved
MovedBy(d, bs) == {i \in DOMAIN bs : bs[i].id \in d.sel}

\* two drags in a row of the same selection, the second by the opposite
\* delta, and the collection as the second one left it
RoundTrip ==
    /\ ev.type = "drop"
    /\ ev.prev # <<>>
    /\ boxes = ev.drag.post
    /\ ev.drag.pre = ev.prev[1].post
    /\ ev.drag.sel = ev.prev[1].sel
    /\ ev.drag.dx = 0 - ev.prev[1].dx
    /\ ev.drag.dy = 0 - ev.prev[1].dy

\* every selected object is where it was before the first drag
Returned ==
    \A i \in MovedBy(ev.drag, boxes) :
        \A j \in DOMAIN ev.prev[1].pre :
            ev.prev[1].pre[j].id = boxes[i].id => Position(boxes[i]) = Position(ev.prev[1].pre[j])

\* drag d neither pushes a coordinate of a moved object below zero nor is
\* released over a page other than the one the object is on
Unclamped(d) ==
    \A i \in MovedBy(d, d.pre) :
        LET b == d.pre[i]
        IN  /\ d.target \in {-1, b.page}
            /\ b.x + d.dx >= 0 /\ b.y + d.dy >= 0
            /\ (TypeOf(b) = "arrow" => b.ex + d.dx >= 0 /\ b.ey + d.dy >= 0)

----------------------------------------------------------------------------
(* Object identity.  `mem` follows the handlers at the level of JavaScript *)
(* references: every object of a collection is a reference made of the     *)
(* address of the object and the address of its points array (0 when it    *)
(* has none); mem.arrays holds the contents of the points arrays, the only *)
(* part of an object the code ever writes in place.                        *)

MaxAliasOps == 7     \* events explored per behaviour of SpecAlias

Ref(obj, pts) == [obj |-> obj, pts |-> pts]

\* JSON.parse(JSON.stringify(refs)): every object and every points array of
\* the result is newly allocated, with the contents read at the call
JsonCopy(m, refs) ==
    LET S       == {i \in DOMAIN refs : refs[i].pts # 0}
        strokes == FilterSeq(refs, S)
        copied  == [k \in 1..Len(strokes) |-> m.arrays[strokes[k].pts]]
    IN  [refs |-> [i \in 1..Len(refs) |->
                      Ref(m.nextObj + i - 1,
                          IF i \in S THEN Len(m.arrays) + Cardinality({j \in S : j <= i})
                          ELSE 0)],
         mem  |-> [m EXCEPT !.nextObj = @ + Len(refs), !.arrays = @ \o copied]]

\* variant of the snapshot that stores the live objects themselves
SnapshotRefsShared(m, refs) == [refs |-> refs, mem |-> m]

\* the snapshot taken by pushHistory, undo, redo and copy
SnapshotRefs(m, refs) == JsonCopy(m, refs)

\* pushHistory of a closure whose `boxes` holds the references src
pushHistoryRefs(m, src) ==
    LET c == SnapshotRefs(m, src)
    IN  [c.mem EXCEPT !.history = Append(@, c.refs), !.redo = <<>>]

\* { ...b }: new objects at the indices idxs, sharing their points arrays
Spread(m, idxs) ==
    [m EXCEPT !.nextObj = @ + Cardinality(idxs),
              !.boxes = [i \in 1..Len(m.boxes) |->
                            IF i \in idxs
                            THEN Ref(m.nextObj + Cardinality({j \in idxs : j < i}), m.boxes[i].pts)
                            ELSE m.boxes[i]]]

MemPageClick(pt) ==
    LET m1 == pushHistoryRefs(mem, mem.boxes)
    IN  IF LocatePage(pt) = -1 THEN m1
        ELSE LET m2 == IF PlacePushes(placeMode) = 2 THEN pushHistoryRefs(m1, mem.boxes) ELSE m1
                 nb == Ref(m2.nextObj, 0)
             IN  [m2 EXCEPT !.nextObj = @ + 1, !.boxes = Append(mem.boxes, nb),
                            !.key = Append(mem.boxes, nb)]

MemCopy ==
    LET c == SnapshotRefs(mem, FilterSeq(mem.key,
                 {i \in DOMAIN keyBoxes : Includes(selectedIds, keyBoxes[i].id)}))
    IN  [c.mem EXCEPT !.clip = c.refs]

MemPaste ==
    LET c == JsonCopy(mem, mem.clip)
    IN  [c.mem EXCEPT !.boxes = mem.boxes \o c.refs, !.key = mem.boxes \o c.refs]

MemPointerDownBox(id, multi) ==
    LET m1 == pushHistoryRefs(mem, mem.boxes)
    IN  [m1 EXCEPT !.key = IF PointerDownSel(id, multi).fresh THEN mem.boxes ELSE @]

\* indices of the objects the move and up listeners replace by a copy
MovedIdx ==
    {i \in DOMAIN boxes : /\ boxes[i].id \in gest.sel /\ boxes[i].id \in DOMAIN gest.starts
                          /\ TypeOf(boxes[i]) # "draw"}
DroppedIdx ==
    IF ~gest.combined \/ DropPage(gest.cur) = -1 THEN {}
    ELSE {i \in MovedIdx : boxes[i].page = DropPage(gest.cur) \/ boxes[i].page \in RenderedPages}

MemWindowMove ==
    IF gest.kind = "move" THEN Spread(mem, MovedIdx)
    ELSE Spread(mem, {FindIndex(boxes, gest.id)} \ {0})

MemWindowUp == IF gest.kind = "move" THEN Spread(mem, DroppedIdx) ELSE mem

MemUndo ==
    LET c == SnapshotRefs(mem, mem.boxes)
    IN  [c.mem EXCEPT !.redo = Append(@, c.refs), !.boxes = Last(mem.history),
                      !.history = Front(@)]

MemRedo ==
    LET c == SnapshotRefs(mem, mem.boxes)
    IN  [c.mem EXCEPT !.history = Append(@, c.refs), !.boxes = Last(mem.redo),
                      !.redo = Front(@)]

\* prev.filter(...) of eraseStrokeAt keeps the surviving objects themselves
MemErase(m, pageIdx, x, y) ==
    [m EXCEPT !.boxes = FilterSeq(@,
        {i \in DOMAIN boxes : ~(/\ TypeOf(boxes[i]) = "draw"
                                /\ boxes[i].id \in RemovedIds(strokeCacheRef, pageIdx, x, y))})]

MemPagePointerDown(ptr, pt) ==
    IF drawMode \/ eraserMode
    THEN IF detectInputDevice(ptr) \notin {"pen", "mouse"} THEN mem
         ELSE LET m1  == pushHistoryRefs(mem, mem.boxes)
                  tpi == LocatePage(pt)
              IN  IF tpi = -1 THEN m1
                  ELSE IF drawMode
                  THEN [m1 EXCEPT !.active = << Ref(m1.nextObj, Len(m1.arrays) + 1) >>,
                                  !.nextObj = @ + 1,
                                  !.arrays = Append(@, << [x |-> pt.x - ImgRect(tpi).left,
                                                           y |-> pt.y - ImgRect(tpi).top] >>)]
                  ELSE MemErase(m1, tpi, pt.x - ImgRect(tpi).left, pt.y - ImgRect(tpi).top)
    ELSE IF placeMode # "none" THEN mem
    ELSE LET m1 == Spread(mem, DOMAIN boxes)
         IN  [m1 EXCEPT !.key = m1.boxes]

\* points.push({ x, y }) writes into the array the active stroke refers to
MemPagePointerMove(ptr, pt) ==
    IF ~PointerAccepted(ptr) \/ ~drawingRef.active THEN mem
    ELSE IF drawingRef.mode = "draw"
    THEN IF mem.active = <<>> THEN mem
         ELSE LET rect   == ImgRect(activeStrokeRef[1].page)
                  x      == Clamp(pt.x - rect.left, 0, rect.width)
                  y      == Clamp(pt.y - rect.top, 0, rect.height)
                  points == mem.arrays[mem.active[1].pts]
                  last   == points[Len(points)]
                  dx     == x - last.x
                  dy     == y - last.y
              IN  IF dx * dx + dy * dy < DrawThreshold * DrawThreshold THEN mem
                  ELSE [mem EXCEPT !.arrays[mem.active[1].pts] = Append(@, [x |-> x, y |-> y])]
    ELSE LET rect == ImgRect(drawingRef.page)
         IN  MemErase(mem, drawingRef.page, Clamp(pt.x - rect.left, 0, rect.width),
                      Clamp(pt.y - rect.top, 0, rect.height))

\* setBoxes(prev => [...prev, activeStroke]): the stroke object itself
MemPagePointerUp(ptr) ==
    IF ~PointerAccepted(ptr) \/ ~(drawingRef.active /\ drawingRef.mode = "draw") THEN mem
    ELSE [mem EXCEPT !.boxes = IF mem.active # <<>> THEN Append(@, mem.active[1]) ELSE @,
                     !.active = <<>>]

AliasBudget ==
    ops < MaxAliasOps /\ ops' = ops + 1 /\ keyPlaceMode' = keyPlaceMode /\ UNCHANGED envVars
AliasPts == { P0, [x |-> 40, y |-> 10] }

APlaceStep == AliasBudget /\ SetPlaceMode("line") /\ mem' = mem
APageClickStep == AliasBudget /\ handlePageClick(P0) /\ mem' = MemPageClick(P0)
ASelectStep ==
    AliasBudget /\ (\E id \in Ids(boxes) : ClickBox(id, FALSE)) /\ mem' = [mem EXCEPT !.key = mem.boxes]
ACopyStep == AliasBudget /\ KeyCopy /\ mem' = MemCopy
APasteStep == AliasBudget /\ KeyPaste /\ mem' = MemPaste
AMoveDownStep ==
    AliasBudget /\ \E id \in Ids(boxes) :
        onPointerDownBox(id, P0, FALSE, 1) /\ mem' = MemPointerDownBox(id, FALSE)
AResizeDownStep ==
    AliasBudget /\ (\E id \in Ids(boxes) : onResizeDown(id, "r", P0, 1))
                /\ mem' = pushHistoryRefs(mem, mem.boxes)
AWindowMoveStep == AliasBudget /\ WindowPointerMove([x |-> 40, y |-> 10], 1) /\ mem' = MemWindowMove
AWindowUpStep == AliasBudget /\ WindowPointerUp(1) /\ mem' = MemWindowUp
AUndoStep == AliasBudget /\ ToolbarUndo /\ mem' = MemUndo
ARedoStep == AliasBudget /\ ToolbarRedo /\ mem' = MemRedo
AToggleDrawStep == AliasBudget /\ ToggleDraw /\ mem' = mem
AToggleEraserStep == AliasBudget /\ ToggleEraser /\ mem' = mem
APageDownStep ==
    AliasBudget /\ \E pt \in AliasPts :
        handlePagePointerDown(Mouse, pt) /\ mem' = MemPagePointerDown(Mouse, pt)
APageMoveStep ==
    AliasBudget /\ \E pt \in AliasPts :
        handlePagePointerMove(Mouse, pt) /\ mem' = MemPagePointerMove(Mouse, pt)
APageUpStep == AliasBudget /\ handlePagePointerUp(Mouse) /\ mem' = MemPagePointerUp(Mouse)

NextAlias ==
    \/ APlaceStep
    \/ APageClickStep
    \/ ASelectStep
    \/ ACopyStep
    \/ APasteStep
    \/ AMoveDownStep
    \/ AResizeDownStep
    \/ AWindowMoveStep
    \/ AWindowUpStep
    \/ AUndoStep
    \/ ARedoStep
    \/ AToggleDrawStep
    \/ AToggleEraserStep
    \/ APageDownStep
    \/ APageMoveStep
    \/ APageUpStep

SpecAlias == Init /\ [][NextAlias]_vars

\* the objects behind refs are the objects vals, points arrays included
Holds(refs, vals) ==
    /\ Len(refs) = Len(vals)
    /\ \A i \in DOMAIN refs :
           IF TypeOf(vals[i]) = "draw"
           THEN refs[i].pts # 0 /\ mem.arrays[refs[i].pts] = vals[i].points
           ELSE refs[i].pts = 0

StoredRefs ==
    UNION ({Range(mem.history[k]) : k \in DOMAIN mem.history}
           \cup {Range(mem.redo[k]) : k \in DOMAIN mem.redo} \cup {Range(mem.clip)})
LiveRefs == Range(mem.boxes) \cup Range(mem.active)

\* the live collection and the active stroke are what the handlers computed
LiveHolds == Holds(mem.boxes, boxes) /\ Holds(mem.active, activeStrokeRef)

----------------------------------------------------------------------------
(* Resize of lines, arrows and text boxes, with the height-fit effect      *)

MaxResizeOps == 7    \* events explored per behaviour of SpecResize

\* el.scrollHeight of the render-box of a displayed text box: the content
\* wraps onto more lines when the box is narrower than a placed comment box
ScrollHeight(b) == IF b.w >= 360 THEN 96 ELSE 120

\* the render-box exists for a text box that is displayed, not edited
HasRenderBox(b) ==
    /\ Rendered(b)
    /\ TypeOf(b) \in {"undefined", "text"}
    /\ ~("isEditing" \in DOMAIN b /\ b.isEditing)

AutoFitted(b) == HasRenderBox(b) /\ ~("fixedHeight" \in DOMAIN b /\ b.fixedHeight)

FitHeight(b) ==
    LET desired == Max(32, ScrollHeight(b) + 4)
    IN  IF AutoFitted(b) /\ (b.h - desired > 1 \/ desired - b.h > 1)
        THEN [b EXCEPT !.h = desired] ELSE b

\* the effect on [boxes, combinePages, pages]: its timer fits the height of
\* every displayed text box without fixedHeight to the rendered content
AutoHeightEffect ==
    /\ boxes' = [i \in DOMAIN boxes |-> FitHeight(boxes[i])]
    /\ boxes' # boxes
    /\ strokeCacheRef' = SyncCache(boxes')
    /\ UNCHANGED <<historyRef, redoRef, selVars, keyBoxes, placeMode, toolVars, clipboard,
                   gest, resizingRef, layVars, nextId, activePointerRef, drawingRef,
                   activeStrokeRef, combinePages, op, ev>>

PlacePt == [x |-> 40, y |-> 40]
GrabPt == [x |-> 40, y |-> 50]
ResizePts == { [x |-> 10, y |-> 50], [x |-> 70, y |-> 80] }

RPlaceStep == Budget(MaxResizeOps) /\ \E kind \in {"line", "arrow", "text"} : SetPlaceMode(kind)
RPageClickStep == Budget(MaxResizeOps) /\ handlePageClick(PlacePt)
RSelectStep == Budget(MaxResizeOps) /\ \E id \in Ids(boxes) : ClickBox(id, FALSE)
RRequestStep == Budget(MaxResizeOps) /\ runAutoLayout
RApplyStep == Budget(MaxResizeOps) /\ LayoutApplied(<<SugA, SugLost>>)
\* the corner handles of text boxes are exercised by SpecCorner
RResizeDownStep ==
    Budget(MaxResizeOps) /\ \E id \in Ids(boxes), c \in Corners :
        /\ c \in {"l", "r"} \/ TypeOf(boxes[FindIndex(boxes, id)]) \in {"line", "arrow"}
        /\ onResizeDown(id, c, GrabPt, 1)
RWindowMoveStep == Budget(MaxResizeOps) /\ \E pt \in ResizePts : WindowPointerMove(pt, 1)
RWindowUpStep == Budget(MaxResizeOps) /\ WindowPointerUp(1)
RAutoHeightStep == Budget(MaxResizeOps) /\ AutoHeightEffect

NextResize ==
    \/ RPlaceStep
    \/ RPageClickStep
    \/ RSelectStep
    \/ RRequestStep
    \/ RApplyStep
    \/ RResizeDownStep
    \/ RWindowMoveStep
    \/ RWindowUpStep
    \/ RAutoHeightStep

SpecResize == Init /\ [][NextResize]_vars

\* fields in which the object b differs from the object p
Changed(b, p) ==
    {f \in (DOMAIN b) \cap (DOMAIN p) : b[f] # p[f]}
        \cup ((DOMAIN b) \ (DOMAIN p)) \cup ((DOMAIN p) \ (DOMAIN b))

\* the objects of the collection that existed when the last command began
Survivors == {i \in DOMAIN boxes : FindIndex(op.pre, boxes[i].id) # 0}
PreOf(i) == op.pre[FindIndex(op.pre, boxes[i].id)]

\* C12: from the start of a resize gesture on, a line keeps the height it
\* had before the gesture whichever handle is dragged, and an arrow differs
\* from what it was in the coordinates of one endpoint only ((x, y) or
\* (ex, ey)) and has no w / h.
C12_ResizeKeepsLineHeightAndArrowShape ==
    op.kind = "resize" =>
        \A i \in Survivors :
            /\ TypeOf(PreOf(i)) = "line" => boxes[i].h = PreOf(i).h
            /\ TypeOf(PreOf(i)) = "arrow" =>
                   /\ \/ Changed(boxes[i], PreOf(i)) \subseteq {"x", "y"}
                      \/ Changed(boxes[i], PreOf(i)) \subseteq {"ex", "ey"}
                   /\ {"w", "h"} \cap DOMAIN boxes[i] = {}

\* a line being resized by a handle, the pointer having moved vertically too
C12_Witness ==
    /\ op.kind = "resize"
    /\ gest.kind = "resize"
    /\ TypeOf(gest.startBox) = "line"
    /\ gest.cur.y # gest.startY
    /\ boxes[FindIndex(boxes, gest.id)].w # gest.startBox.w

TextBoxes == {i \in Survivors : TypeOf(PreOf(i)) \in {"undefined", "text"}}

\* the text box the toolbar places at PlacePt on page 0
PlacedText(id) == NewTextBox(id, 0, 40, 40, 240, 100, 14, TRUE, FALSE, "")

\* the running gesture drags the left edge of a just placed text box 30 px
\* to the left
LeftEdgeDragged ==
    /\ gest.kind = "resize"
    /\ gest.corner = "l"
    /\ gest.startBox = PlacedText(gest.startBox.id)
    /\ gest.cur.x - gest.startX = -30

----------------------------------------------------------------------------
(* Projection of source-raster boxes onto the rendered surface             *)
(* (fetchSpatialRects), in the arithmetic of JavaScript numbers.           *)

\* placements of the spatial map that cover a whole page of the source raster
WholePage(pw, ph) == [page |-> 0, x |-> 0, y |-> 0, w |-> pw, h |-> ph, page_w |-> pw, page_h |-> ph]
SpatialPlacements == { WholePage(1240, 1754), WholePage(1654, 2339) }

\* client rectangles of the page image under the zoom levels of the view
SurfaceRects ==
    { [left |-> 0, top |-> 0, width |-> w, height |-> h] :
        w \in {595, 600, 620, 700, 768, 800, 827, 1240},
        h \in {842, 848, 877, 990, 1000, 1086, 1169, 1754} }

\* variant of the projection that scales the width by the vertical scale
SpatialRectOneScale(p, r, wr) ==
    LET scaleY == DDiv(r.height, p.page_h)
    IN  [left |-> r.left - wr.left, top |-> r.top - wr.top,
         width |-> DMulInt(p.w, scaleY), height |-> DMulInt(p.h, scaleY)]

\* the rectangle pushed for placement p: (p.x || 0) * scaleX is 0 for x = 0
\* and offX + 0 is offX; width and height are p.w * scaleX and p.h * scaleY
SpatialRect(p, r, wr) ==
    LET scaleX == DDiv(r.width, p.page_w)
        scaleY == DDiv(r.height, p.page_h)
    IN  [left |-> r.left - wr.left, top |-> r.top - wr.top,
         width |-> DMulInt(p.w, scaleX), height |-> DMulInt(p.h, scaleY)]

\* the response of the spatial map is projected onto the surface r
fetchSpatialRects(p, r) ==
    /\ p.x = 0 /\ p.y = 0
    /\ ev' = [type |-> "spatial", placement |-> p, surface |-> r,
              rect |-> SpatialRect(p, r, r)]
    /\ UNCHANGED <<histVars, selVars, keyBoxes, keyPlaceMode, placeMode, toolVars, clipboard, gest,
                   resizingRef, layVars, nextId, drawVars, combinePages, mem, ops, op,
                   envVars>>

NextSpatial == \E p \in SpatialPlacements, r \in SurfaceRects : fetchSpatialRects(p, r)

SpecSpatial == Init /\ [][NextSpatial]_vars

\* C14 as stated: a source box covering the whole page (x = 0, y = 0,
\* w = page_w, h = page_h) is projected onto exactly the full surface
\* rectangle (offset, offset, surface width, surface height), whatever the
\* size of the source raster and of the surface.
C14_WholePageFillsSurfaceExactly ==
    ev.type = "spatial" =>
        ev.rect = [left |-> 0, top |-> 0, width |-> ToDouble(ev.surface.width),
                   height |-> ToDouble(ev.surface.height)]

\* the binary digits b minus one: the last 1 becomes 0 and the 0s after it 1
Decremented(b) ==
    LET k == CHOOSE n \in 1..Len(b) : b[n] = 1 /\ \A j \in (n + 1)..Len(b) : b[j] = 0
    IN  [i \in 1..Len(b) |-> IF i < k THEN b[i] ELSE IF i = k THEN 0 ELSE 1]

\* the numbers next to d
DSucc(d) == Rounded(d.m, d.e, TRUE)
DPred(d) ==
    IF \A i \in 2..Precision : d.m[i] = 0
    THEN [m |-> [i \in 1..Precision |-> 1], e |-> d.e - 1]
    ELSE [m |-> Decremented(d.m), e |-> d.e]

\* d is the integer n or one of the two numbers next to it
WithinOneUlp(d, n) == d \in {ToDouble(n), DSucc(ToDouble(n)), DPred(ToDouble(n))}

\* C14: the projection of a source box covering the whole page has the
\* offsets of the surface as left and top, and a width and height within
\* one unit in the last place of the surface's; they are the surface's
\* exactly when the surface has the size of the source raster.
C14_WholePageFillsSurface ==
    ev.type = "spatial" =>
        /\ ev.rect.left = 0 /\ ev.rect.top = 0
        /\ WithinOneUlp(ev.rect.width, ev.surface.width)
        /\ WithinOneUlp(ev.rect.height, ev.surface.height)
        /\ ev.surface.width = ev.placement.page_w =>
               ev.rect.width = ToDouble(ev.surface.width)
        /\ ev.surface.height = ev.placement.page_h =>
               ev.rect.height = ToDouble(ev.surface.height)

\* a whole-page box whose projected width is not the surface width
C14_Witness ==
    /\ ev.type = "spatial"
    /\ ev.placement.w = ev.placement.page_w
    /\ ev.rect.width # ToDouble(ev.surface.width)


----------------------------------------------------------------------------
(* Clicks and pointer-downs of the page view beside the pages              *)

MaxMissOps == 6      \* events explored per behaviour of SpecMiss

\* a point on page 0 and a point of the page view to the right of the pages
MissPts == { P0, [x |-> PageSize.w + 100, y |-> 10] }

XPlaceStep == Budget(MaxMissOps) /\ SetPlaceMode("line")
XPageClickStep == Budget(MaxMissOps) /\ \E pt \in MissPts : handlePageClick(pt)
XToggleDrawStep == Budget(MaxMissOps) /\ ToggleDraw
XToggleEraserStep == Budget(MaxMissOps) /\ ToggleEraser
XPageDownStep == Budget(MaxMissOps) /\ \E pt \in MissPts : handlePagePointerDown(Mouse, pt)
XPageMoveStep == Budget(MaxMissOps) /\ \E pt \in MissPts : handlePagePointerMove(Mouse, pt)
XPageUpStep == Budget(MaxMissOps) /\ handlePagePointerUp(Mouse)
XUndoStep == Budget(MaxMissOps) /\ ToolbarUndo
XRedoStep == Budget(MaxMissOps) /\ ToolbarRedo

NextMiss ==
    \/ XPlaceStep
    \/ XPageClickStep
    \/ XToggleDrawStep
    \/ XToggleEraserStep
    \/ XPageDownStep
    \/ XPageMoveStep
    \/ XPageUpStep
    \/ XUndoStep
    \/ XRedoStep

SpecMiss == Init /\ [][NextMiss]_vars

\* C15: a placement click, or a pointer-down with the draw or erase tool,
\* whose point lies on no rendered page leaves the collection, the undo
\* stack and the redo stack as they were.
C15_MissIsNoOp ==
    [][(op' # op /\ op'.kind \in {"placeMiss", "drawMiss"}) =>
            UNCHANGED <<boxes, historyRef, redoRef>>]_vars


----------------------------------------------------------------------------
(* The count reported by an auto-layout run                                *)

\* C16: the count reported to the user after an auto-layout run is the
\* number of placements that were applied; skipped suggestions do not count.
C16_ReportedCountIsApplied ==
    (ev.type = "layout" /\ ev.reported # <<>>) =>
        ev.reported[1] = Cardinality(ResolvableIn(ev.placements))


----------------------------------------------------------------------------
(* Tool modes                                                              *)

\* C17: the draw tool and the erase tool are never active together, and a
\* step that activates one of them leaves the other inactive.
C17_DrawAndEraseExclusive ==
    /\ [](~(drawMode /\ eraserMode))
    /\ [][/\ (~drawMode /\ drawMode') => ~eraserMode'
          /\ (~eraserMode /\ eraserMode') => ~drawMode']_vars

\* the erase tool was activated while the draw tool, with which a stroke
\* had just been drawn, was active
C17_Witness ==
    /\ ops = 4
    /\ op.kind = "toggleEraser"
    /\ boxes # <<>>
    /\ eraserMode /\ ~drawMode

ToolActive == drawMode \/ eraserMode \/ placeMode # "none"

\* C18: a move gesture starts only while the draw tool, the erase tool and
\* placement mode are all inactive, so that no step of a move gesture
\* changes the collection while one of them is active.
C18_NoMoveWhileToolActive ==
    [][/\ (gest = NoGesture /\ gest' # NoGesture /\ gest'.kind = "move") => ~ToolActive
       /\ (gest # NoGesture /\ gest.kind = "move" /\ ToolActive) => boxes' = boxes]_vars


----------------------------------------------------------------------------
(* Positions during and at the end of a move gesture                       *)

Moving == gest # NoGesture /\ gest.kind = "move"
Dx == gest.cur.x - gest.startX
Dy == gest.cur.y - gest.startY

\* the objects the running move gesture moves
Dragged ==
    {i \in DOMAIN boxes : /\ boxes[i].id \in gest.sel /\ boxes[i].id \in DOMAIN gest.starts
                          /\ TypeOf(boxes[i]) # "draw"}
StartAt(i) == gest.starts[boxes[i].id]

\* no coordinate of a dragged object would leave the page at the left or top
NoClamp == \A i \in Dragged : StartAt(i).x + Dx >= 0 /\ StartAt(i).y + Dy >= 0

----------------------------------------------------------------------------
(* Drag of a line or an arrow from one page of the combined view to another *)

DropClickPts == { [x |-> 50, y |-> 20], [x |-> 50, y |-> PageSize.h + 20] }
DropPts == { [x |-> px, y |-> py] : px \in {100, 110}, py \in {20, PageSize.h + 20} }

HandleRadius == 6

\* the pointer-down reaches onPointerDownBox: on a line as in MoveGrab, on an
\* arrow on its stroke (a level arrow here) and off its two end handles
DropGrab(b, pt) ==
    LET r    == ImgRect(b.page)
        relX == pt.x - (r.left + b.x)
        relY == pt.y - (r.top + b.y)
    IN  IF TypeOf(b) = "arrow"
        THEN /\ b.ey = b.y /\ relY = 0
             /\ relX >= 0 /\ relX <= b.ex - b.x
             /\ ~(Includes(selectedIds, b.id)
                    /\ (relX <= HandleRadius \/ relX >= b.ex - b.x - HandleRadius))
        ELSE MoveGrab(b, pt)

DPlaceStep == Budget(MaxDropOps) /\ \E kind \in {"line", "arrow"} : SetPlaceMode(kind)
DPageClickStep == Budget(MaxDropOps) /\ \E pt \in DropClickPts : handlePageClick(pt)
DMoveDownStep ==
    Budget(MaxDropOps) /\ \E i \in DOMAIN boxes, pt \in DropPts :
                              DropGrab(boxes[i], pt) /\ onPointerDownBox(boxes[i].id, pt, FALSE, 1)
DWindowMoveStep == Budget(MaxDropOps) /\ \E pt \in DropPts : WindowPointerMove(pt, 1)
DWindowUpStep == Budget(MaxDropOps) /\ WindowPointerUp(1)

NextDrop ==
    \/ DPlaceStep
    \/ DPageClickStep
    \/ DMoveDownStep
    \/ DWindowMoveStep
    \/ DWindowUpStep

SpecDrop == Init /\ [][NextDrop]_vars

\* where an object is drawn in the shared container: its page's offset
\* added to its page-relative coordinates
InContainer(b) ==
    LET r == ImgRect(b.page)
    IN  IF TypeOf(b) = "arrow"
        THEN <<r.left + b.x, r.top + b.y, r.left + b.ex, r.top + b.ey>>
        ELSE <<r.left + b.x, r.top + b.y>>

\* C20: when a move gesture is released in the combined view, every moved
\* object is on the page under the release point (its own page when released
\* there) and is drawn in the shared container where it was drawn just
\* before the release, an arrow with both its end points.
C20_DropKeepsContainerPosition ==
    [][(Moving /\ gest' = NoGesture /\ gest.combined /\ DropPage(gest.cur) # -1) =>
            \A i \in Dragged :
                /\ boxes'[i].page = DropPage(gest.cur)
                /\ InContainer(boxes'[i]) = InContainer(boxes[i])]_vars


----------------------------------------------------------------------------
(* onResizeDown called with the id of an object the collection lacks       *)

\* onResizeDown up to the lookup in its setBoxes updater: the snapshot is
\* pushed and the flag raised before findIndex misses, and the updater
\* returns without attaching the move / up listeners
onResizeDownUnknown(id, corner, pt, pid) ==
    /\ gest = NoGesture
    /\ corner \in Corners
    /\ id \notin Ids(boxes)
    /\ historyRef' = PushedHistory(historyRef, boxes)
    /\ redoRef' = <<>>
    /\ resizingRef' = TRUE
    /\ op' = Observe("resizeUnknown")
    /\ UNCHANGED <<boxes, selVars, keyBoxes, placeMode, toolVars, clipboard, gest, layVars,
                   nextId, drawVars, combinePages, ev>>

StaleGrab == [x |-> 50, y |-> 10]
StalePts == { StaleGrab, [x |-> 60, y |-> 30] }

SPlaceStep == Budget(MaxStaleOps) /\ SetPlaceMode("line")
SPageClickStep == Budget(MaxStaleOps) /\ handlePageClick(P0)
SResizeUnknownStep ==
    Budget(MaxStaleOps) /\ \E id \in (1..nextId) \ Ids(boxes), c \in {"l", "br"} :
                               onResizeDownUnknown(id, c, P0, 1)
SMoveDownStep ==
    Budget(MaxStaleOps) /\ \E i \in DOMAIN boxes :
                               MoveGrab(boxes[i], StaleGrab)
                                   /\ onPointerDownBox(boxes[i].id, StaleGrab, FALSE, 1)
SWindowMoveStep == Budget(MaxStaleOps) /\ \E pt \in StalePts : WindowPointerMove(pt, 1)
SWindowUpStep == Budget(MaxStaleOps) /\ WindowPointerUp(1)
SUndoStep == Budget(MaxStaleOps) /\ ToolbarUndo
SRedoStep == Budget(MaxStaleOps) /\ ToolbarRedo

NextStale ==
    \/ SPlaceStep
    \/ SPageClickStep
    \/ SResizeUnknownStep
    \/ SMoveDownStep
    \/ SWindowMoveStep
    \/ SWindowUpStep
    \/ SUndoStep
    \/ SRedoStep

SpecStale == Init /\ [][NextStale]_vars

\* C21: a resize-down on an id that is not in the collection changes
\* neither the collection, nor the undo and redo stacks, nor the gesture
\* state, nor the resizing flag that blocks moves.
C21_UnknownResizeIsNoOp ==
    [][(op'.kind = "resizeUnknown" /\ op' # op) =>
            UNCHANGED <<boxes, historyRef, redoRef, gest, resizingRef>>]_vars


----------------------------------------------------------------------------
(* Stroke cache against the collection                                     *)

IsDrawOn(p, b) == TypeOf(b) = "draw" /\ b.page = p
\* the draw objects of page p, in the order of the collection
PageStrokes(p) == SelectSeq(boxes, LAMBDA b : IsDrawOn(p, b))

\* a pointer-up is about to end a draw gesture that has an active stroke
DrawEnding == drawingRef.active /\ drawingRef.mode = "draw" /\ activeStrokeRef # <<>>

\* C22: while no draw gesture is in progress the stroke cache of every page
\* holds exactly the draw objects of that page, in the order of the
\* collection; the pointer-up that ends a draw gesture appends the stroke to
\* the collection and to the cache of its page and clears the active stroke.
C22_CacheMirrorsDrawObjects ==
    /\ [](~drawingRef.active => \A p \in 0..(PageCount - 1) : strokeCacheRef[p] = PageStrokes(p))
    /\ [][(DrawEnding /\ ~drawingRef'.active) =>
              LET stroke == activeStrokeRef[1]
              IN  /\ boxes' = Append(boxes, stroke)
                  /\ strokeCacheRef'[stroke.page] = Append(strokeCacheRef[stroke.page], stroke)
                  /\ activeStrokeRef' = <<>>]_vars

\* a second stroke has just been committed next to one drawn before
C22_Witness ==
    /\ ~drawingRef.active
    /\ ev.type = "up"
    /\ op.kind = "draw"
    /\ Len(boxes) >= 2
    /\ TypeOf(boxes[Len(boxes)]) = "draw"
    /\ \E p \in 0..(PageCount - 1) : Len(strokeCacheRef[p]) >= 1 /\ strokeCacheRef[p] = PageStrokes(p)
    /\ activeStrokeRef = <<>>


----------------------------------------------------------------------------
(* Committed strokes under selection, drag, nudge, copy / paste, erase and *)
(* undo / redo                                                             *)

\* onPointerDownBox on a draw target: the selection is set and the handler
\* returns before pushHistory and before any listener is attached.  The
\* binding is on the polyline of the draw branch of the object renderer.
onPointerDownBoxDraw(id, multi) ==
    /\ gest = NoGesture
    /\ \E i \in DOMAIN boxes :
           boxes[i].id = id /\ TypeOf(boxes[i]) = "draw" /\ boxes[i].page \in RenderedPages
    /\ LET baseSel == IF Includes(selectedIds, id) THEN selectedIds
                      ELSE IF multi THEN Append(selectedIds, id) ELSE <<id>>
       IN  /\ selectedId' = id
           /\ selectedIds' = baseSel
           /\ keyBoxes' = (IF Includes(selectedIds, id) THEN keyBoxes ELSE boxes)
    /\ op' = Observe("selectStroke")
    /\ UNCHANGED <<histVars, placeMode, toolVars, clipboard, gest, resizingRef, layVars,
                   nextId, drawVars, combinePages, ev>>

StrokeStart == [x |-> 10, y |-> 10]
StrokeEnd == [x |-> 60, y |-> 60]
LinePt == [x |-> 150, y |-> 80]
LineGrab == [x |-> 100, y |-> 80]
LineDragPts == { [x |-> 110, y |-> 90] }

KPlaceStep == Budget(MaxStrokeOps) /\ SetPlaceMode("line")
KPageClickStep == Budget(MaxStrokeOps) /\ handlePageClick(LinePt)
KToggleDrawStep == Budget(MaxStrokeOps) /\ ToggleDraw
KToggleEraserStep == Budget(MaxStrokeOps) /\ ToggleEraser
KPageDownStep == Budget(MaxStrokeOps) /\ handlePagePointerDown(Mouse, StrokeStart)
KPageMoveStep == Budget(MaxStrokeOps) /\ handlePagePointerMove(Mouse, StrokeEnd)
KPageUpStep == Budget(MaxStrokeOps) /\ handlePagePointerUp(Mouse)
KSelectStrokeStep ==
    Budget(MaxStrokeOps) /\ \E id \in Ids(boxes) : onPointerDownBoxDraw(id, FALSE)
KMoveDownStep ==
    Budget(MaxStrokeOps) /\ \E i \in DOMAIN boxes, multi \in BOOLEAN :
                                MoveGrab(boxes[i], LineGrab)
                                    /\ onPointerDownBox(boxes[i].id, LineGrab, multi, 1)
KWindowMoveStep == Budget(MaxStrokeOps) /\ \E pt \in LineDragPts : WindowPointerMove(pt, 1)
KWindowUpStep == Budget(MaxStrokeOps) /\ WindowPointerUp(1)
KNudgeStep == Budget(MaxStrokeOps) /\ KeyNudge("ArrowUp", TRUE)
KCopyStep == Budget(MaxStrokeOps) /\ KeyCopy
KPasteStep == Budget(MaxStrokeOps) /\ KeyPaste
KDeleteStep == Budget(MaxStrokeOps) /\ KeyDelete
KUndoStep == Budget(MaxStrokeOps) /\ ToolbarUndo
KRedoStep == Budget(MaxStrokeOps) /\ ToolbarRedo

NextStroke ==
    \/ KPlaceStep
    \/ KPageClickStep
    \/ KToggleDrawStep
    \/ KToggleEraserStep
    \/ KPageDownStep
    \/ KPageMoveStep
    \/ KPageUpStep
    \/ KSelectStrokeStep
    \/ KMoveDownStep
    \/ KWindowMoveStep
    \/ KWindowUpStep
    \/ KNudgeStep
    \/ KCopyStep
    \/ KPasteStep
    \/ KDeleteStep
    \/ KUndoStep
    \/ KRedoStep

SpecStroke == Init /\ [][NextStroke]_vars


\* the strokes the running move gesture has in its selection
DraggedStrokes ==
    {i \in DOMAIN boxes : /\ TypeOf(boxes[i]) = "draw"
                          /\ boxes[i].id \in gest.sel /\ boxes[i].id \in DOMAIN gest.starts}

----------------------------------------------------------------------------
(* Touch pointers while the draw or erase tool is active                   *)

TouchIds == {p.id : p \in {q \in Pointers : q.type = "touch"}}

\* the step delivers a pointer-down of a touch pointer to the page view
\* while the draw or erase tool is active
TouchDownWithTool ==
    /\ drawMode \/ eraserMode
    /\ ops' # ops
    /\ toolVars' = toolVars
    /\ ev'.type = "down"
    /\ ev'.id \in TouchIds

\* C25: a touch pointer-down with the draw or erase tool active leaves the
\* active stroke, the gesture record, the collection and the stroke cache
\* as they are, and every step that starts a draw or erase gesture is a
\* pointer-down of a mouse or a pen.
C25_TouchNeverDraws ==
    /\ [][TouchDownWithTool =>
              UNCHANGED <<boxes, activeStrokeRef, drawingRef, strokeCacheRef>>]_vars
    /\ [][(~drawingRef.active /\ drawingRef'.active) =>
              (ev'.type = "down" /\ ev'.id \notin TouchIds)]_vars

\* a stroke was drawn with the mouse and committed, and the last pointer
\* event since then is a touch pointer-down with a tool active
C25_Witness ==
    /\ ops = 5
    /\ eraserMode
    /\ ev.type = "down"
    /\ ev.id \in TouchIds
    /\ boxes # <<>>
    /\ ~drawingRef.active


----------------------------------------------------------------------------
(* Placement mode: the next click, and Escape                              *)

EscBudget == ops < MaxEscapeOps /\ ops' = ops + 1 /\ mem' = mem /\ UNCHANGED envVars

\* the keydown handler is subscribed again, in the closure of the new
\* render, by every step that gives selectedIds a new array
EPlaceStep ==
    EscBudget /\ (\E kind \in {"line", "arrow"} : SetPlaceMode(kind))
              /\ keyPlaceMode' = keyPlaceMode
EPageClickStep ==
    EscBudget /\ \E pt \in MissPts :
                     /\ handlePageClick(pt)
                     /\ keyPlaceMode' = (IF LocatePage(pt) # -1 THEN placeMode' ELSE keyPlaceMode)
ESelectStep ==
    EscBudget /\ (\E id \in Ids(boxes) : ClickBox(id, FALSE)) /\ keyPlaceMode' = placeMode'
EEscapeStep == EscBudget /\ KeyEscape /\ keyPlaceMode' = keyPlaceMode
EUndoStep == EscBudget /\ ToolbarUndo /\ keyPlaceMode' = keyPlaceMode

NextEscape ==
    \/ EPlaceStep
    \/ EPageClickStep
    \/ ESelectStep
    \/ EEscapeStep
    \/ EUndoStep

SpecEscape == Init /\ [][NextEscape]_vars

\* C26: a click on the page view while a placement is pending clears the
\* placement mode, and a click while none is pending places nothing;
\* Escape while a placement is pending clears the placement mode and leaves
\* the collection and the undo and redo stacks as they are.
C26_ClickOrEscapeEndsPlacement ==
    /\ [][(op'.kind \in {"place", "placeMiss"} /\ ops' # ops) => placeMode' = "none"]_vars
    /\ [][(placeMode = "none" /\ ops' # ops /\ op'.kind \notin {"select", "undo"}) =>
              boxes' = boxes]_vars
    /\ [][(placeMode # "none" /\ op'.kind = "escape" /\ ops' # ops) =>
              (placeMode' = "none" /\ UNCHANGED <<boxes, historyRef, redoRef>>)]_vars

\* ---------------------------------------------------------------------------
\* Resize handles against the selection
\* ---------------------------------------------------------------------------

HandlePts == { [x |-> 70, y |-> 80] }

HPlaceStep == Budget(MaxHandleOps) /\ \E kind \in {"line", "arrow"} : SetPlaceMode(kind)
HPageClickStep == Budget(MaxHandleOps) /\ handlePageClick(PlacePt)
HSelectStep == Budget(MaxHandleOps) /\ \E id \in Ids(boxes), multi \in BOOLEAN : ClickBox(id, multi)
HResizeDownStep ==
    Budget(MaxHandleOps) /\ \E id \in Ids(boxes), c \in Corners : onResizeDown(id, c, GrabPt, 1)
HWindowMoveStep == Budget(MaxHandleOps) /\ \E pt \in HandlePts : WindowPointerMove(pt, 1)
HWindowUpStep == Budget(MaxHandleOps) /\ WindowPointerUp(1)

NextHandles ==
    \/ HPlaceStep
    \/ HPageClickStep
    \/ HSelectStep
    \/ HResizeDownStep
    \/ HWindowMoveStep
    \/ HWindowUpStep

SpecHandles == Init /\ [][NextHandles]_vars

\* C27: a resize starts only on the sole selected object, whatever its kind
\* (arrows included): when a resize gesture begins, the selection is exactly
\* the resized object, and no handle is offered while the selection holds two
\* objects or more.
C27_ResizeOnlyOnSoleSelection ==
    /\ [][(gest.kind # "resize" /\ gest'.kind = "resize") => selectedIds = <<gest'.id>>]_vars
    /\ [](\A i \in DOMAIN boxes : \A c \in Corners :
              HandleShown(boxes[i], c) => Len(selectedIds) = 1)

\* ---------------------------------------------------------------------------
\* Corner and edge drags on generic boxes and lines
\* ---------------------------------------------------------------------------

\* Each behaviour ends with one resize gesture, on a line, on a text box that
\* is being edited or on a label of fixed height; displayed boxes whose height
\* follows their content are the subject of SpecResize.
CornerGrab == [x |-> 300, y |-> 200]
CornerPts == { [x |-> 330, y |-> 230], [x |-> 100, y |-> 180], [x |-> 310, y |-> 120] }

BeforeResize == op.kind # "resize"

CPlaceStep ==
    Budget(MaxCornerOps) /\ BeforeResize /\ \E kind \in {"line", "text"} : SetPlaceMode(kind)
CPageClickStep == Budget(MaxCornerOps) /\ BeforeResize /\ handlePageClick(PlacePt)
CRequestStep == Budget(MaxCornerOps) /\ BeforeResize /\ runAutoLayout
CApplyStep == Budget(MaxCornerOps) /\ BeforeResize /\ LayoutApplied(<<SugQ, SugLost>>)
CSelectStep ==
    Budget(MaxCornerOps) /\ BeforeResize /\ \E id \in Ids(boxes) : ClickBox(id, FALSE)
CResizeDownStep ==
    Budget(MaxCornerOps) /\ BeforeResize /\ \E id \in Ids(boxes), c \in Corners :
        /\ ~AutoFitted(boxes[FindIndex(boxes, id)])
        /\ onResizeDown(id, c, CornerGrab, 1)
CWindowMoveStep == Budget(MaxCornerOps) /\ \E pt \in CornerPts : WindowPointerMove(pt, 1)
CWindowUpStep == Budget(MaxCornerOps) /\ WindowPointerUp(1)

NextCorner ==
    \/ CPlaceStep
    \/ CPageClickStep
    \/ CRequestStep
    \/ CApplyStep
    \/ CSelectStep
    \/ CResizeDownStep
    \/ CWindowMoveStep
    \/ CWindowUpStep

SpecCorner == Init /\ [][NextCorner]_vars

\* the object of the gesture, once the pointer has left the point of the press
Dragging == gest.kind = "resize" /\ (gest.cur.x # gest.startX \/ gest.cur.y # gest.startY)
Resized == boxes[FindIndex(boxes, gest.id)]
IsGeneric(b) == TypeOf(b) \in {"undefined", "text", "score", "image", "target"}
CornerDragged ==
    /\ Dragging
    /\ gest.corner \in {"tl", "tr", "bl", "br"}
    /\ IsGeneric(gest.startBox)

\* c * d, exactly: the binary digits of the product and the exponent of d
ExactProduct(c, d) == [bits |-> Reverse(TimesLsb(Reverse(d.m), c, 0)), e |-> d.e]

SameValue(p, q) ==
    LET k == Min(p.e, q.e)
    IN  p.bits \o Zeros(p.e - k) = q.bits \o Zeros(q.e - k)

RECURSIVE WithinUlps(_, _, _)
\* b is a or one of the n numbers on either side of it
WithinUlps(a, b, n) ==
    \/ a = b
    \/ n > 0 /\ (WithinUlps(DSucc(a), b, n - 1) \/ WithinUlps(DPred(a), b, n - 1))

EdgeDragged ==
    /\ Dragging
    /\ gest.corner \in {"l", "r"}
    /\ IsGeneric(gest.startBox)

\* the font size f is (startBox.fontSize || 16) * h / startH rounded to an
\* integer, or the minimum 8 when that is smaller
FontFollows(f, startBox, h) ==
    LET p      == DMulInt(FontOf(startBox), h)
        startH == Max(1, startBox.h)
    IN  \/ ~DLess(p, ToDouble((f - 1) * startH)) /\ ~DLess(ToDouble((f + 1) * startH), p)
        \/ f = 8 /\ DLess(p, ToDouble(9 * startH))

AtLeast(v, n) == IF CornerDragged THEN ~DLess(v, ToDouble(n)) ELSE v >= n

TextEdgeDragged == EdgeDragged /\ TypeOf(gest.startBox) \in {"undefined", "text"}

C31_LeftEdgeDragKeepsRightEdge ==
    (Dragging /\ TypeOf(gest.startBox) = "line" /\ gest.corner \in {"l", "tl", "bl"}) =>
        Resized.x + Resized.w = gest.startBox.x + gest.startBox.w

\* ---------------------------------------------------------------------------
\* Group tokens: press, release and click on a member of a group
\* ---------------------------------------------------------------------------

\* The browser delivers the click to the pressed object after the release;
\* no modifier key is held.
ClickPending == op.kind = "move" /\ gest = NoGesture

GrpPlaceStep ==
    Budget(MaxGroupOps) /\ ~ClickPending /\ \E kind \in {"linex", "arrow"} : SetPlaceMode(kind)
GrpPageClickStep == Budget(MaxGroupOps) /\ ~ClickPending /\ handlePageClick(PlacePt)
GrpPressStep ==
    Budget(MaxGroupOps) /\ ~ClickPending /\ \E id \in Ids(boxes) : onPointerDownBox(id, GrabPt, FALSE, 1)
GrpWindowMoveStep == Budget(MaxGroupOps) /\ \E pt \in HandlePts : WindowPointerMove(pt, 1)
GrpWindowUpStep == Budget(MaxGroupOps) /\ WindowPointerUp(1)
GrpClickStep == Budget(MaxGroupOps) /\ ClickPending /\ ClickBox(selectedId, FALSE)
GrpDeleteStep == Budget(MaxGroupOps) /\ ~ClickPending /\ removeSelected

NextGroup ==
    \/ GrpPlaceStep
    \/ GrpPageClickStep
    \/ GrpPressStep
    \/ GrpWindowMoveStep
    \/ GrpWindowUpStep
    \/ GrpClickStep
    \/ GrpDeleteStep

SpecGroup == Init /\ [][NextGroup]_vars

\* ids of the objects that share the group token of object id
GroupOf(id) ==
    LET b == boxes[FindIndex(boxes, id)]
    IN  IF "group" \in DOMAIN b
        THEN {boxes[i].id : i \in {j \in DOMAIN boxes : "group" \in DOMAIN boxes[j]
                                                        /\ boxes[j].group = b.group}}
        ELSE {id}

\* C32: once a member of a group has been pressed with no modifier held,
\* every object of the group is in the selection, and it still is after the
\* release and after the click has been delivered, so that a following
\* delete removes the whole group.
C32_GroupStaysSelected ==
    /\ []((op.kind \in {"move", "select"} /\ selectedId \in Ids(boxes)) =>
              GroupOf(selectedId) \subseteq Range(selectedIds))
    /\ [][(op'.kind = "delete" /\ ops' # ops /\ op.kind = "select") =>
              \A id \in Range(selectedIds) : GroupOf(id) \cap Ids(boxes') = {}]_vars

\* ---------------------------------------------------------------------------
\* Copy and paste of lines, arrows and strokes
\* ---------------------------------------------------------------------------

PstPlaceStep == Budget(MaxPasteOps) /\ \E kind \in {"line", "arrow"} : SetPlaceMode(kind)
PstPageClickStep == Budget(MaxPasteOps) /\ handlePageClick(LinePt)
PstToggleDrawStep == Budget(MaxPasteOps) /\ ToggleDraw
PstPageDownStep == Budget(MaxPasteOps) /\ handlePagePointerDown(Mouse, StrokeStart)
PstPageMoveStep == Budget(MaxPasteOps) /\ handlePagePointerMove(Mouse, StrokeEnd)
PstPageUpStep == Budget(MaxPasteOps) /\ handlePagePointerUp(Mouse)
PstSelectStrokeStep ==
    Budget(MaxPasteOps) /\ \E id \in Ids(boxes) : onPointerDownBoxDraw(id, FALSE)
PstNudgeStep == Budget(MaxPasteOps) /\ KeyNudge("ArrowDown", TRUE)
PstCopyStep == Budget(MaxPasteOps) /\ KeyCopy
PstPasteStep == Budget(MaxPasteOps) /\ KeyPaste

NextPaste ==
    \/ PstPlaceStep
    \/ PstPageClickStep
    \/ PstToggleDrawStep
    \/ PstPageDownStep
    \/ PstPageMoveStep
    \/ PstPageUpStep
    \/ PstSelectStrokeStep
    \/ PstNudgeStep
    \/ PstCopyStep
    \/ PstPasteStep

SpecPaste == Init /\ [][NextPaste]_vars

\* the coordinates of an object that paste moves
PastedFields(b) ==
    CASE TypeOf(b) = "draw"  -> {"offsetX", "offsetY"}
      [] TypeOf(b) = "arrow" -> {"x", "y", "ex", "ey"}
      [] OTHER -> {"x", "y"}

\* c is the snapshot s under a new id, moved by the paste offset
CloneOf(c, s) ==
    /\ DOMAIN c = DOMAIN s
    /\ \A f \in PastedFields(s) : c[f] = s[f] + PasteOffset
    /\ \A f \in DOMAIN s \ (PastedFields(s) \cup {"id"}) : c[f] = s[f]

editorVars ==
    <<boxes, historyRef, redoRef, selectedId, selectedIds, keyBoxes, keyPlaceMode,
      placeMode, drawMode, eraserMode, clipboard, gest, resizingRef, autoPlacing,
      layoutBoxes, nextId, activePointerRef, drawingRef, activeStrokeRef,
      strokeCacheRef, combinePages, mem, op, ev>>

PageIdx == 0..(PageCount - 1)

\* variant of the scheduler that requests a frame for every segment
scheduleDrawFlushAlways ==
    /\ drawFrameRef' = ops + 1
    /\ frames' = frames \cup {ops + 1}

\* requestAnimationFrame returns a handle it has not returned before
scheduleDrawFlush ==
    IF drawFrameRef # 0 THEN UNCHANGED <<drawFrameRef, frames>>
    ELSE /\ drawFrameRef' = ops + 1
         /\ frames' = frames \cup {ops + 1}

queueDrawSegment(page) ==
    /\ drawQueueRef' = Append(drawQueueRef,
                              [page |-> page, no |-> ops + 1, surface |-> canvasRefs[page]])
    /\ scheduleDrawFlush
    /\ UNCHANGED <<canvasRefs, mounted, painted>>

\* queue.forEach of the frame callback h: a segment whose page has no
\* surface is skipped
Drawn(queue, h) ==
    LET kept == FilterSeq(queue, {i \in DOMAIN queue : canvasRefs[queue[i].page] # 0})
    IN  [i \in 1..Len(kept) |-> [surface |-> canvasRefs[kept[i].page], no |-> kept[i].no,
                                 queuedFor |-> kept[i].surface, frame |-> h]]

FrameCallback(h) ==
    /\ h \in frames
    /\ frames' = frames \ {h}
    /\ drawFrameRef' = 0
    /\ drawQueueRef' = <<>>
    /\ painted' = painted \o Drawn(drawQueueRef, h)
    /\ UNCHANGED <<canvasRefs, mounted>>

\* ref callbacks of a page's canvas: ref(null) and ref(el) with a new element
DetachCanvas(p) ==
    /\ canvasRefs[p] # 0
    /\ canvasRefs' = [canvasRefs EXCEPT ![p] = 0]
    /\ UNCHANGED <<drawQueueRef, drawFrameRef, frames, mounted, painted>>

AttachCanvas(p) ==
    /\ canvasRefs[p] = 0
    /\ canvasRefs' = [canvasRefs EXCEPT ![p] = PageCount + ops + 1]
    /\ UNCHANGED <<drawQueueRef, drawFrameRef, frames, mounted, painted>>

\* unmount: the refs are detached and the cleanup effect cancels the frame
Unmount ==
    /\ mounted' = FALSE
    /\ canvasRefs' = [p \in PageIdx |-> 0]
    /\ frames' = frames \ {drawFrameRef}
    /\ drawFrameRef' = 0
    /\ drawQueueRef' = <<>>
    /\ UNCHANGED painted

RenderBudget ==
    /\ ops < MaxRenderOps /\ ops' = ops + 1 /\ mounted
    /\ UNCHANGED <<editorVars, timerVars, buildVars>>

RdrQueueStep == RenderBudget /\ \E p \in PageIdx : canvasRefs[p] # 0 /\ queueDrawSegment(p)
RdrFrameStep ==
    (\E h \in frames : FrameCallback(h)) /\ UNCHANGED <<ops, editorVars, timerVars, buildVars>>
RdrDetachStep == RenderBudget /\ \E p \in PageIdx : DetachCanvas(p)
RdrAttachStep == RenderBudget /\ \E p \in PageIdx : AttachCanvas(p)
RdrUnmountStep == RenderBudget /\ Unmount

NextRender ==
    \/ RdrQueueStep
    \/ RdrFrameStep
    \/ RdrDetachStep
    \/ RdrAttachStep
    \/ RdrUnmountStep

SpecRender == Init /\ [][NextRender]_vars

\* the browser runs a requested frame callback at the next display refresh
SpecRenderFair == SpecRender /\ WF_vars(RdrFrameStep)

Queued(n) == \E i \in DOMAIN drawQueueRef : drawQueueRef[i].no = n
Numbers(s) == [i \in DOMAIN s |-> s[i].no]
Flushing == frames' # frames /\ mounted'

\* C34: at most one flush is scheduled at any time, and one is scheduled
\* whenever a segment waits; a flush empties the queue and draws, in the
\* order of queueing, the waiting segments whose page has a surface; no
\* segment is drawn twice; a waiting segment does not wait for ever.
C34_OneFlushTakesAll ==
    /\ [](/\ Cardinality(frames) <= 1
          /\ drawFrameRef # 0 => frames = {drawFrameRef}
          /\ drawQueueRef # <<>> => drawFrameRef # 0)
    /\ [][(Flushing /\ frames' = {}) =>
              /\ drawQueueRef' = <<>>
              /\ Len(painted') >= Len(painted)
              /\ SubSeq(painted', 1, Len(painted)) = painted
              /\ Numbers(SubSeq(painted', Len(painted) + 1, Len(painted'))) =
                     Numbers(FilterSeq(drawQueueRef,
                         {i \in DOMAIN drawQueueRef : canvasRefs[drawQueueRef[i].page] # 0}))]_vars
    /\ [](\A i, j \in DOMAIN painted : i # j => painted[i].no # painted[j].no)
    /\ \A n \in 1..MaxRenderOps : Queued(n) ~> ~Queued(n)

\* one flush has drawn two segments, and a later flush has drawn a third
C34_Witness ==
    /\ mounted
    /\ Len(painted) = 3
    /\ painted[1].frame = painted[2].frame
    /\ painted[3].frame # painted[2].frame
    /\ drawQueueRef = <<>> /\ frames = {}

\* C35: a segment is only ever drawn on the surface its page had when the
\* segment was queued, so the segments of a surface removed before the flush
\* are never drawn; after the unmount no frame callback is left, the queue
\* is empty and nothing is drawn any more.
C35_RemovedSurfaceDropsSegments ==
    /\ [](\A i \in DOMAIN painted : painted[i].surface = painted[i].queuedFor)
    /\ [](~mounted => (frames = {} /\ drawQueueRef = <<>>))
    /\ [][~mounted => painted' = painted]_vars

\* ---------------------------------------------------------------------------
\* Undo and redo by keyboard against undo and redo by toolbar
\* ---------------------------------------------------------------------------

Stacks == [boxes |-> boxes, history |-> historyRef, redo |-> redoRef]

\* collection and stacks after an undo, or a redo, run by a handler whose
\* closure sees the collection b; a pop of an empty stack changes nothing
Undone(b) ==
    IF historyRef = <<>> THEN Stacks
    ELSE [boxes |-> Last(historyRef), history |-> Front(historyRef),
          redo |-> Append(redoRef, Snapshot(b))]
Redone(b) ==
    IF redoRef = <<>> THEN Stacks
    ELSE [boxes |-> Last(redoRef), history |-> Append(historyRef, Snapshot(b)),
          redo |-> Front(redoRef)]

\* the shortcut returns before the undo branch while nothing is selected
KeyUndone == IF Len(selectedIds) = 0 THEN Stacks ELSE Undone(keyBoxes)
KeyRedone == IF Len(selectedIds) = 0 THEN Stacks ELSE Redone(keyBoxes)

\* C36: in every state between gestures the undo shortcut leaves the same
\* collection, undo stack and redo stack as the undo button, and the redo
\* shortcut the same as the redo button.
C36_ShortcutEqualsButton ==
    gest = NoGesture => (KeyUndone = Undone(boxes) /\ KeyRedone = Redone(boxes))

\* ---------------------------------------------------------------------------
\* A plain selection click: press and release without a pointer move
\* ---------------------------------------------------------------------------

Pressing == gest = NoGesture /\ gest' # NoGesture /\ gest'.kind = "move"
ReleasingUnmoved ==
    /\ gest # NoGesture /\ gest.kind = "move" /\ gest' = NoGesture
    /\ gest.cur = [x |-> gest.startX, y |-> gest.startY]

\* C37: neither the press on an object nor the release that follows it
\* without a move changes the collection, the undo stack or the redo stack.
C37_PlainClickKeepsStacks ==
    [][(Pressing \/ ReleasingUnmoved) =>
           (boxes' = boxes /\ historyRef' = historyRef /\ redoRef' = redoRef)]_vars

\* ---------------------------------------------------------------------------
\* Editing timer: the tick and flush intervals, flushEditingTimeNow, the
\* effect that copies unflushedSeconds into unflushedRef, the answers of the
\* time/add requests and the cleanup of the timer effect.  A request is
\* [id, kind, amt] with kind "periodic", "now" or "final".
\* ---------------------------------------------------------------------------

RECURSIVE TotalOf(_)
TotalOf(rs) == IF rs = {} THEN 0 ELSE LET r == CHOOSE q \in rs : TRUE
                                      IN  r.amt + TotalOf(rs \ {r})

Request(kind, amt) == [id |-> ops + 1, kind |-> kind, amt |-> amt]

\* setInterval(tick, 1000)
tick ==
    /\ timerOn
    /\ unflushedSeconds' = unflushedSeconds + 1
    /\ timeLog' = [timeLog EXCEPT !.counted = @ + 1]
    /\ UNCHANGED <<unflushedRef, lastFlush, timerOn, requests>>

\* useEffect(() => { unflushedRef.current = unflushedSeconds }, [unflushedSeconds]),
\* run after the render that follows a change of the state
SyncUnflushedRef ==
    /\ timerOn
    /\ unflushedRef # unflushedSeconds
    /\ unflushedRef' = unflushedSeconds
    /\ UNCHANGED <<unflushedSeconds, lastFlush, timerOn, requests, timeLog>>

\* setInterval(flush, 10000)
flush ==
    /\ timerOn
    /\ unflushedRef > 0
    /\ lastFlush' = unflushedRef
    /\ unflushedSeconds' = 0
    /\ requests' = requests \cup {Request("periodic", unflushedRef)}
    /\ UNCHANGED <<unflushedRef, timerOn, timeLog>>

\* close button and complete(): the part before the await
flushEditingTimeNow ==
    /\ timerOn
    /\ unflushedRef > 0
    /\ requests' = requests \cup {Request("now", unflushedRef)}
    /\ UNCHANGED <<unflushedSeconds, unflushedRef, lastFlush, timerOn, timeLog>>

\* the request r is answered: the continuation after the await, or the catch
Answered(r, ok) ==
    /\ r \in requests
    /\ requests' = requests \ {r}
    /\ unflushedSeconds' =
           (CASE ~timerOn -> unflushedSeconds
              [] r.kind = "now" /\ ok -> 0
              [] r.kind = "periodic" /\ ~ok -> unflushedSeconds + lastFlush
              [] OTHER -> unflushedSeconds)
    /\ timeLog' =
           (CASE ok -> [timeLog EXCEPT !.received = @ + r.amt]
              [] r.kind = "final" \/ (r.kind = "periodic" /\ ~timerOn) ->
                     [timeLog EXCEPT !.lost = @ + r.amt]
              [] OTHER -> timeLog)
    /\ UNCHANGED <<unflushedRef, lastFlush, timerOn>>

\* cleanup of the timer effect: the intervals are cleared and what the ref
\* holds is sent; the state goes with the component
TimerCleanup ==
    /\ timerOn
    /\ timerOn' = FALSE
    /\ requests' = (IF unflushedRef > 0 THEN requests \cup {Request("final", unflushedRef)}
                    ELSE requests)
    /\ unflushedSeconds' = 0
    /\ UNCHANGED <<unflushedRef, lastFlush, timeLog>>

TimerBudget ==
    /\ ops < MaxTimerOps /\ ops' = ops + 1
    /\ UNCHANGED <<editorVars, renderVars, buildVars>>
TimerFree == UNCHANGED <<ops, editorVars, renderVars, buildVars>>

TmrTickStep == TimerBudget /\ tick
TmrSyncStep == TimerFree /\ SyncUnflushedRef
TmrFlushStep == TimerBudget /\ flush
TmrFlushNowStep == TimerBudget /\ flushEditingTimeNow
TmrAnswerStep == TimerFree /\ \E r \in requests, ok \in BOOLEAN : Answered(r, ok)
TmrCleanupStep == TimerBudget /\ TimerCleanup

NextTimer ==
    \/ TmrTickStep
    \/ TmrSyncStep
    \/ TmrFlushStep
    \/ TmrFlushNowStep
    \/ TmrAnswerStep
    \/ TmrCleanupStep

SpecTimer == Init /\ [][NextTimer]_vars

\* C38: every counted second is in exactly one place: received by the
\* backend, waiting in unflushedSeconds, in a request in flight, or in a
\* request that failed with nothing left to add it back to.
C38_EverySecondOnce ==
    timeLog.counted = timeLog.received + unflushedSeconds + TotalOf(requests) + timeLog.lost

\* ---------------------------------------------------------------------------
\* Curation build queue: enqueueBuild, the scheduler effect on [buildQueue,
\* runningKeys] and the task it starts.  A task is [key, phase]: "build"
\* while the build_md request is in flight, "coverage" while the coverage
\* request that follows a successful build is.
\* ---------------------------------------------------------------------------

concurrency == 2

enqueueBuild(k) ==
    /\ buildStatuses[k] \notin {"queued", "running"}
    /\ buildStatuses' = [buildStatuses EXCEPT ![k] = "queued"]
    /\ buildQueue' = (IF Includes(buildQueue, k) THEN buildQueue ELSE Append(buildQueue, k))
    /\ UNCHANGED <<runningKeys, tasks>>

\* the effect up to the first await of the task
StartBuild ==
    /\ buildQueue # <<>>
    /\ Len(runningKeys) < concurrency
    /\ LET k == Head(buildQueue)
       IN  /\ buildQueue' = Tail(buildQueue)
           /\ runningKeys' = Append(runningKeys, k)
           /\ buildStatuses' = [buildStatuses EXCEPT ![k] = "running"]
           /\ tasks' = Append(tasks, [key |-> k, phase |-> "build"])

Without(s, i) == FilterSeq(s, DOMAIN s \ {i})
\* prev.filter(x => x !== k)
FilteredOut(s, k) == FilterSeq(s, {j \in DOMAIN s : s[j] # k})

\* the build_md request of task i is answered
BuildAnswered(i, ok) ==
    /\ i \in DOMAIN tasks /\ tasks[i].phase = "build"
    /\ LET k == tasks[i].key
       IN  IF ok
           THEN /\ buildStatuses' = [buildStatuses EXCEPT ![k] = "done"]
                /\ tasks' = [tasks EXCEPT ![i].phase = "coverage"]
                /\ UNCHANGED <<buildQueue, runningKeys>>
           ELSE /\ buildStatuses' = [buildStatuses EXCEPT ![k] = "error"]
                /\ tasks' = Without(tasks, i)
                /\ runningKeys' = FilteredOut(runningKeys, k)
                /\ UNCHANGED buildQueue

\* the coverage request of task i is answered, or fails: `finally`
CoverageAnswered(i) ==
    /\ i \in DOMAIN tasks /\ tasks[i].phase = "coverage"
    /\ tasks' = Without(tasks, i)
    /\ runningKeys' = FilteredOut(runningKeys, tasks[i].key)
    /\ UNCHANGED <<buildStatuses, buildQueue>>

BuildFree == UNCHANGED <<ops, editorVars, renderVars, timerVars>>

BldEnqueueStep ==
    /\ ops < MaxBuildOps /\ ops' = ops + 1
    /\ UNCHANGED <<editorVars, renderVars, timerVars>>
    /\ \E k \in BuildKeys : enqueueBuild(k)
BldStartStep == BuildFree /\ StartBuild
BldBuildAnsweredStep == BuildFree /\ \E i \in DOMAIN tasks, ok \in BOOLEAN : BuildAnswered(i, ok)
BldCoverageAnsweredStep == BuildFree /\ \E i \in DOMAIN tasks : CoverageAnswered(i)

NextBuild ==
    \/ BldEnqueueStep
    \/ BldStartStep
    \/ BldBuildAnsweredStep
    \/ BldCoverageAnsweredStep

SpecBuild == Init /\ [][NextBuild]_vars

\* the effect runs after every render that changed the queue or the running
\* keys, and every request is answered
SpecBuildFair ==
    /\ SpecBuild
    /\ WF_vars(BldStartStep) /\ WF_vars(BldBuildAnsweredStep) /\ WF_vars(BldCoverageAnsweredStep)

\* keys whose build_md request is in flight
Building == {i \in DOMAIN tasks : tasks[i].phase = "build"}

\* C39: at most two build requests are in flight; no key is twice in the
\* queue, and none is in the queue while its build request is in flight; a
\* queued key is started and ends as done or error.
C39_BuildQueue ==
    /\ [](Cardinality(Building) <= concurrency)
    /\ [](\A i, j \in DOMAIN buildQueue : i # j => buildQueue[i] # buildQueue[j])
    /\ [](\A i \in DOMAIN buildQueue : \A t \in Building : tasks[t].key # buildQueue[i])
    /\ \A k \in BuildKeys :
           (buildStatuses[k] = "queued") ~> (buildStatuses[k] \in {"done", "error"})

\* ---------------------------------------------------------------------------
\* Coordinates of the objects under placement near the top of a page, move,
\* nudge and paste
\* ---------------------------------------------------------------------------

CrdPlaceStep ==
    Budget(MaxCoordOps) /\ \E kind \in {"line", "arrow", "text", "linex"} : SetPlaceMode(kind)
CrdPageClickStep == Budget(MaxCoordOps) /\ \E pt \in ClickPts : handlePageClick(pt)
CrdPressStep ==
    Budget(MaxCoordOps) /\ \E id \in Ids(boxes) : onPointerDownBox(id, GrabPt, FALSE, 1)
CrdWindowMoveStep == Budget(MaxCoordOps) /\ \E pt \in ResizePts : WindowPointerMove(pt, 1)
CrdWindowUpStep == Budget(MaxCoordOps) /\ WindowPointerUp(1)
CrdNudgeStep == Budget(MaxCoordOps) /\ \E key \in {"ArrowUp", "ArrowLeft"} : KeyNudge(key, TRUE)
CrdCopyStep == Budget(MaxCoordOps) /\ KeyCopy
CrdPasteStep == Budget(MaxCoordOps) /\ KeyPaste

NextCoords ==
    \/ CrdPlaceStep
    \/ CrdPageClickStep
    \/ CrdPressStep
    \/ CrdWindowMoveStep
    \/ CrdWindowUpStep
    \/ CrdNudgeStep
    \/ CrdCopyStep
    \/ CrdPasteStep

SpecCoords == Init /\ [][NextCoords]_vars

\* C40: every object of the collection has x >= 0 and y >= 0, and an arrow
\* has ex >= 0 and ey >= 0 as well.
C40_NonNegativeCoordinates ==
    \A i \in DOMAIN boxes :
        /\ boxes[i].x >= 0 /\ boxes[i].y >= 0
        /\ TypeOf(boxes[i]) = "arrow" => (boxes[i].ex >= 0 /\ boxes[i].ey >= 0)

====
